---- MODULE Spec2Model ----
(***************************************************************************)
(* Axis-semantics normalisation and adaptive display scaling of the        *)
(* spectator data manager (controllers/app_controller.py): AxisType,       *)
(* DataDimensionality, DataRearranger, ViewerSelector, DataScaler and the  *)
(* Manager facade.                                                         *)
(*                                                                         *)
(* Conventions of the model:                                               *)
(*  - a Python list is a TLA+ sequence; positions that the code exposes    *)
(*    (axis_mapping, states_axis_index, dictionary keys) are 0-based as in *)
(*    the code;                                                            *)
(*  - an ndarray is a record [shape, val] where val maps every 0-based     *)
(*    index tuple to a value;                                              *)
(*  - a number is a record [kind, m, k, by]: kind "fin" is a float and     *)
(*    kind "int" an integer written m * 10^k, kind "nan" and "inf" are the *)
(*    non-finite floats; the elements of an array are all floats or all    *)
(*    integers, which is the dtype of the array;                           *)
(*  - an exception is the name of its kind, "none" when nothing is raised. *)
(***************************************************************************)
EXTENDS Integers, Sequences, FiniteSets, TLC

(***************************************************************************)
(* Bounds of the model.                                                    *)
(***************************************************************************)
\* longest label list handed to validation (one more than max_dimensions)
MaxLabels == 6
\* axis sizes cycle through 1..DimMod
DimMod == 3
\* largest size of a STATES axis in the scaler and manager runs
MaxStates == 2
\* the magnitudes analyze_data_range is probed with: m * 10^k for
\* 1 <= m <= MaxMantissa and -MaxDecade <= k <= MaxDecade, both signs
MaxMantissa == 200
MaxDecade == 8

(***************************************************************************)
(* AxisType (enum): member names, and the member a value string denotes.   *)
(***************************************************************************)
AxisType == {"STATES", "SPECTRAL", "SPATIAL", "TIME"}

\* AxisType.<member>.value
AxisValue(t) ==
  CASE t = "STATES" -> "states"
    [] t = "SPECTRAL" -> "spectral"
    [] t = "SPATIAL" -> "spatial"
    [] t = "TIME" -> "time"

\* the caller-supplied labels of the model: the four values, a spelling
\* in other letter case, and one string that names no role
Labels == {"states", "spectral", "spatial", "time", "States", "flux"}

\* str.lower() on the labels of the model
Lower(s) ==
  CASE s = "States" -> "states"
    [] OTHER -> s

\* AxisType(value): the member whose value is the string, "ValueError"
\* when there is none
AxisTypeOf(value) ==
  IF \E t \in AxisType : AxisValue(t) = value
  THEN CHOOSE t \in AxisType : AxisValue(t) = value
  ELSE "ValueError"

(***************************************************************************)
(* A Python assignment evaluates its right-hand side once and names the    *)
(* value: Rest(value) is what follows the assignment.                      *)
(***************************************************************************)
Bind(value, Rest(_)) == CHOOSE result \in {Rest(x) : x \in {value}} : TRUE

(***************************************************************************)
(* List helpers.                                                           *)
(***************************************************************************)
\* list.count(x)
Count(s, x) == Cardinality({i \in 1..Len(s) : s[i] = x})

\* x in list
Contains(s, x) == \E i \in 1..Len(s) : s[i] = x

\* list.index(x), 0-based; the caller checks Contains first
IndexOf(s, x) == (CHOOSE i \in 1..Len(s) : s[i] = x /\ \A j \in 1..(i-1) : s[j] # x) - 1

\* list.pop(i) followed by list.append of the popped element, i 0-based
PopAppend(s, i) ==
  SubSeq(s, 1, i) \o SubSeq(s, i + 2, Len(s)) \o <<s[i + 1]>>

\* list.remove(x): drops the first occurrence
RemoveFirst(s, x) ==
  LET i == IndexOf(s, x) IN SubSeq(s, 1, i) \o SubSeq(s, i + 2, Len(s))

\* set(list)
ToSet(s) == {s[i] : i \in 1..Len(s)}

(***************************************************************************)
(* DataDimensionality                                                      *)
(***************************************************************************)
max_dimensions == 5
max_states == 8
max_spatial_axes == 2

\* DataDimensionality._validate_axis_combinations: the error it raises
ValidateAxisCombinations(axis_types) ==
  IF Count(axis_types, "STATES") > 1 THEN "DuplicateAxisRole"
  ELSE IF Count(axis_types, "SPATIAL") > max_spatial_axes THEN "DuplicateAxisRole"
  ELSE IF Count(axis_types, "SPECTRAL") > 1 THEN "DuplicateAxisRole"
  ELSE IF Count(axis_types, "TIME") > 1 THEN "DuplicateAxisRole"
  ELSE IF Len(axis_types) = 1
          /\ axis_types[1] \notin {"SPATIAL", "SPECTRAL", "TIME"}
       THEN "InvalidSingleAxis"
  ELSE "none"

\* a validation without the count check of lines 56-57
ValidateWithoutCountCheck(axes) ==
  IF \E i \in 1..Len(axes) : AxisTypeOf(Lower(axes[i])) = "ValueError"
  THEN [err |-> "UnknownAxisLabel", axes |-> <<>>]
  ELSE LET axis_types == [i \in 1..Len(axes) |-> AxisTypeOf(Lower(axes[i]))]
           e == ValidateAxisCombinations(axis_types)
       IN IF e # "none" THEN [err |-> e, axes |-> <<>>]
          ELSE [err |-> "none", axes |-> axis_types]

\* DataDimensionality.validate_axis_specification: [err, axes]
ValidateAxisSpecification(axes) ==
  IF Len(axes) > max_dimensions
  THEN [err |-> "InvalidAxisCount", axes |-> <<>>]
  ELSE IF \E i \in 1..Len(axes) : AxisTypeOf(Lower(axes[i])) = "ValueError"
  THEN [err |-> "UnknownAxisLabel", axes |-> <<>>]
  ELSE LET axis_types == [i \in 1..Len(axes) |-> AxisTypeOf(Lower(axes[i]))]
           e == ValidateAxisCombinations(axis_types)
       IN IF e # "none" THEN [err |-> e, axes |-> <<>>]
          ELSE [err |-> "none", axes |-> axis_types]

(***************************************************************************)
(* DataRearranger                                                          *)
(***************************************************************************)
target_order_3d == <<"STATES", "SPECTRAL", "SPATIAL">>
target_order_5d == <<"STATES", "SPECTRAL", "SPATIAL", "SPATIAL", "TIME">>

\* the 0-based positions of SPATIAL, in decreasing order (reversed(...))
RECURSIVE MoveSpatial(_, _)
MoveSpatial(order, revIdx) ==
  IF revIdx = <<>> THEN order
  ELSE MoveSpatial(PopAppend(order, Head(revIdx)), Tail(revIdx))

RECURSIVE ReversedSpatialIndices(_, _)
ReversedSpatialIndices(s, n) ==
  IF n = 0 THEN <<>>
  ELSE IF s[n] = "SPATIAL" THEN <<n - 1>> \o ReversedSpatialIndices(s, n - 1)
  ELSE ReversedSpatialIndices(s, n - 1)

\* the roles of `priority` that occur in input_axes, each once
RECURSIVE PresentOnce(_, _)
PresentOnce(priority, input_axes) ==
  IF priority = <<>> THEN <<>>
  ELSE (IF Contains(input_axes, Head(priority)) THEN <<Head(priority)>> ELSE <<>>)
       \o PresentOnce(Tail(priority), input_axes)

\* n copies of x
RECURSIVE Repeat(_, _)
Repeat(x, n) == IF n <= 0 THEN <<>> ELSE <<x>> \o Repeat(x, n - 1)

\* an _arrange_custom_3d that stops after the priority pass
ArrangeCustom3dPriorityPassOnly(input_axes) ==
  PresentOnce(<<"STATES", "SPECTRAL", "SPATIAL", "TIME">>, input_axes)

\* DataRearranger._arrange_custom_3d
ArrangeCustom3d(input_axes) ==
  LET priority == <<"STATES", "SPECTRAL", "SPATIAL", "TIME">>
      spatial_count == Count(input_axes, "SPATIAL")
  IN PresentOnce(priority, input_axes)
     \o (IF spatial_count > 1 THEN Repeat("SPATIAL", spatial_count - 1) ELSE <<>>)

\* the while loops of _arrange_4d: every occurrence of each priority role
RECURSIVE AllOccurrences(_, _)
AllOccurrences(priority, remaining_axes) ==
  IF priority = <<>> THEN <<>>
  ELSE Repeat(Head(priority), Count(remaining_axes, Head(priority)))
       \o AllOccurrences(Tail(priority), remaining_axes)

\* an _arrange_4d whose priority list names SPATIAL before SPECTRAL
Arrange4dSpatialFirst(input_axes) ==
  LET priority == <<"SPATIAL", "SPECTRAL", "TIME">>
  IN IF Contains(input_axes, "STATES")
     THEN <<"STATES">> \o AllOccurrences(priority, RemoveFirst(input_axes, "STATES"))
     ELSE AllOccurrences(priority, input_axes)

\* DataRearranger._arrange_4d
Arrange4d(input_axes) ==
  LET priority == <<"SPECTRAL", "SPATIAL", "TIME">>
  IN IF Contains(input_axes, "STATES")
     THEN <<"STATES">> \o AllOccurrences(priority, RemoveFirst(input_axes, "STATES"))
     ELSE AllOccurrences(priority, input_axes)

\* DataRearranger.get_target_order: [err, order]
\* a get_target_order that gives every rank-3 input the fixed 3-D order
GetTargetOrderFixed3d(input_axes) ==
  LET ndim == Len(input_axes) IN
  IF ndim <= 2
  THEN [err |-> "none",
        order |-> IF Contains(input_axes, "SPATIAL")
                  THEN MoveSpatial(input_axes, ReversedSpatialIndices(input_axes, ndim))
                  ELSE input_axes]
  ELSE IF ndim = 3
  THEN [err |-> "none", order |-> target_order_3d]
  ELSE IF ndim = 4
  THEN [err |-> "none", order |-> Arrange4d(input_axes)]
  ELSE IF ndim = 5
  THEN [err |-> "none", order |-> target_order_5d]
  ELSE [err |-> "UnsupportedRank", order |-> <<>>]

GetTargetOrder(input_axes) ==
  LET ndim == Len(input_axes) IN
  IF ndim <= 2
  THEN [err |-> "none",
        order |-> IF Contains(input_axes, "SPATIAL")
                  THEN MoveSpatial(input_axes, ReversedSpatialIndices(input_axes, ndim))
                  ELSE input_axes]
  ELSE IF ndim = 3
  THEN [err |-> "none",
        order |-> IF ToSet(input_axes) = ToSet(target_order_3d)
                  THEN target_order_3d
                  ELSE ArrangeCustom3d(input_axes)]
  ELSE IF ndim = 4
  THEN [err |-> "none", order |-> Arrange4d(input_axes)]
  ELSE IF ndim = 5
  THEN [err |-> "none", order |-> target_order_5d]
  ELSE [err |-> "UnsupportedRank", order |-> <<>>]

(***************************************************************************)
(* ndarray                                                                 *)
(***************************************************************************)
\* every 0-based index tuple of an array of the given shape
RECURSIVE Indices(_)
Indices(shape) ==
  IF shape = <<>> THEN {<<>>}
  ELSE {<<i>> \o rest : i \in 0..(shape[1] - 1), rest \in Indices(Tail(shape))}

\* the binary64 number written m * 10^k (its nearest double), not yet
\* multiplied by anything: by is empty
Fin(m, k) == [kind |-> "fin", m |-> m, k |-> k, by |-> <<>>]

\* numpy.transpose(data, axes): [err, data]; numpy rejects an axes list
\* whose length is not the rank and one that repeats an axis
Transpose(data, axes) ==
  LET n == Len(data.shape) IN
  IF Len(axes) # n
  THEN [err |-> "TransposeAxesMismatch", data |-> data]
  ELSE IF \E i, j \in 1..n : i # j /\ axes[i] = axes[j]
  THEN [err |-> "TransposeRepeatedAxis", data |-> data]
  ELSE LET shape == [i \in 1..n |-> data.shape[axes[i] + 1]]
           \* the source index of an index of the result
           src(idx) == [p \in 1..n |-> idx[CHOOSE i \in 1..n : axes[i] + 1 = p]]
       IN [err |-> "none",
           data |-> [shape |-> shape,
                     val |-> [idx \in Indices(shape) |-> data.val[src(idx)]]]]

\* the loop of rearrange_data that builds axis_mapping: input_axes.index of
\* every target axis
\* a rearrange_data that leaves the axes where they are
AxisMappingInPlace(input_axes, target_axes) ==
  [i \in 1..Len(target_axes) |-> i - 1]

AxisMapping(input_axes, target_axes) ==
  [i \in 1..Len(target_axes) |-> IndexOf(input_axes, target_axes[i])]

\* DataRearranger.rearrange_data: [err, data]
RearrangeData(data, input_axes, target_axes) ==
  IF Len(data.shape) # Len(input_axes)
  THEN [err |-> "AxisCountMismatch", data |-> data]
  ELSE IF \E i \in 1..Len(target_axes) : ~Contains(input_axes, target_axes[i])
  THEN [err |-> "TargetAxisNotFound", data |-> data]
  ELSE Transpose(data, AxisMapping(input_axes, target_axes))

(***************************************************************************)
(* Numbers.  A value is the binary64 number the code holds: the double     *)
(* nearest m * 10^k (m not a multiple of ten, zero is 0 * 10^0), then      *)
(* multiplied in binary64 by 10 ** e for every e of by, in order.  Such a  *)
(* product is in general not the double nearest m * 10^(k+e): 3.2e7 *      *)
(* 10 ** -7 is 3.1999999999999997 and not 3.2.  It is therefore kept as a  *)
(* product, and two values are equal records when they are the same        *)
(* literal taken through the same multiplications.                         *)
(* Comparisons (np.max, the band test, the rounded logarithm) are made on  *)
(* the decimal value m * 10^(k + sum of by), from which the double differs *)
(* by a relative error below 2^-51.  The products the model compares are   *)
(* scaled maxima, whose decimal value lies in [1.58, 15.8): the double can *)
(* fall on the other side of a threshold only where the decimal value is   *)
(* exactly 10, and there both sides of the band test give exponent 0.      *)
(***************************************************************************)
RECURSIVE Pow10(_)
Pow10(n) == IF n <= 0 THEN 1 ELSE 10 * Pow10(n - 1)

Abs(n) == IF n < 0 THEN -n ELSE n

RECURSIVE Norm(_, _)
Norm(m, k) ==
  IF m = 0 THEN Fin(0, 0)
  ELSE IF m % 10 = 0 THEN Norm(m \div 10, k + 1)
  ELSE Fin(m, k)

NaN == [kind |-> "nan", m |-> 0, k |-> 0, by |-> <<>>]
Inf == [kind |-> "inf", m |-> 1, k |-> 0, by |-> <<>>]

\* the decimal value of a finite number: m * 10^(k + the exponents of by)
RECURSIVE SumSeq(_)
SumSeq(s) == IF s = <<>> THEN 0 ELSE Head(s) + SumSeq(Tail(s))

Decimal(v) == IF v.by = <<>> THEN v ELSE Norm(v.m, v.k + SumSeq(v.by))

\* the element n of an array of integer dtype
IntOf(n) == [Norm(n, 0) EXCEPT !.kind = "int"]

\* numpy.isfinite: every integer is finite
IsFinite(v) == v.kind \in {"fin", "int"}

\* numpy.abs of a finite number
AbsVal(v) == [v EXCEPT !.m = Abs(@)]

\* a <= b for finite numbers a, b >= 0 whose mantissas are below 1000 (the
\* numbers of the model): seven decades apart the exponents decide
Leq(a, b) ==
  LET x == Decimal(a)
      y == Decimal(b)
      d == x.k - y.k
  IN IF x.m = 0 THEN TRUE
     ELSE IF y.m = 0 THEN FALSE
     ELSE IF d >= 7 THEN FALSE
     ELSE IF d <= -7 THEN TRUE
     ELSE IF d >= 0 THEN x.m * Pow10(d) <= y.m
     ELSE x.m <= y.m * Pow10(-d)

\* the largest decimal exponent at which every m * 10^k of the model is an
\* integer below 2^53
MaxExactDecade == 12

\* v * 10 ** e in binary64.  NaN and the infinities are kept by a positive
\* factor, zero stays zero and 10 ** 0 is 1.  An integer times the integer
\* 10 ** e (e > 0) is exact below 2^53.  Every other product is rounded and
\* is kept as the product it is.  10 ** e is a Python int for e > 0 and a
\* float for e < 0: an element of an integer array stays an integer under
\* the first and becomes a float under the second.
MulPow10(v, e) ==
  IF e = 0 \/ v.kind \in {"nan", "inf"} THEN v
  ELSE IF v.kind = "int"
  THEN IF e > 0 THEN [Norm(v.m, v.k + e) EXCEPT !.kind = "int"]
       ELSE IF v.m = 0 THEN Fin(0, 0)
       ELSE [v EXCEPT !.kind = "fin", !.by = Append(@, e)]
  ELSE IF v.m = 0 THEN v
  ELSE IF v.by = <<>> /\ v.k >= 0 /\ e > 0 /\ v.k + e <= MaxExactDecade
  THEN Norm(v.m, v.k + e)
  ELSE [v EXCEPT !.by = Append(@, e)]

\* the integer a float becomes when it is stored into an array of integer
\* dtype: the part before the decimal point.  The float is a product
\* n * 10 ** e of an integer n below 2^31 and e >= -10, which in binary64
\* is not below the integer n / 10^-e where that is one
Truncate(v) ==
  LET d == Decimal(v) IN
  IF d.k >= 0 THEN [d EXCEPT !.kind = "int"]
  ELSE IF -d.k > 9 THEN IntOf(0)
  ELSE IF d.m < 0 THEN IntOf(-(Abs(d.m) \div Pow10(-d.k)))
  ELSE IntOf(d.m \div Pow10(-d.k))

\* scaled_data[idx] = value (line 394): scaled_data is data.copy() (line
\* 375) and has the dtype of data, so where old, the element of the copy,
\* is an integer the value is stored as an integer
Stored(old, value) == IF old.kind = "int" THEN Truncate(value) ELSE value

(***************************************************************************)
(* DataScaler                                                              *)
(***************************************************************************)
\* the 'global' key of the scale dictionaries; the state keys are 0, 1, ...
GlobalKey == -1
\* None as the value of states_axis_index
NoneIndex == -1

\* self.target_max_value = 10.0, and the 0.1 of the band test
target_max_value == Fin(1, 1)
band_min_value == Fin(1, -1)

\* p * 10^a < 25 and 25 < p * 10^b for an integer 1 <= p < 2^31
Below25(p, a) ==
  IF a >= 2 THEN FALSE
  ELSE IF a >= 0 THEN p * Pow10(a) < 25
  ELSE IF a <= -8 THEN TRUE
  ELSE p < 25 * Pow10(-a)

Above25(p, b) ==
  IF b >= 2 THEN TRUE
  ELSE IF b >= 0 THEN 25 < p * Pow10(b)
  ELSE IF b <= -8 THEN FALSE
  ELSE 25 * Pow10(-b) < p

\* round(log10(5.0 / data_max)) for data_max = m * 10^k > 0: the integer e
\* with e - 1/2 < log10(5 / data_max) < e + 1/2, which is
\* 10^(2e-1) < 25 / (m^2 * 10^(2k)) < 10^(2e+1); with j = e + k this reads
\* m^2 * 10^(2j-1) < 25 < m^2 * 10^(2j+1)  (no tie: data_max is rational)
RoundLog10Scale(data_max) ==
  LET v == Decimal(data_max)
      p == v.m * v.m
      j == CHOOSE j \in -4..1 : Below25(p, 2 * j - 1) /\ Above25(p, 2 * j + 1)
  IN j - v.k

\* str(n) for a natural number, and the superscript of a character
\* (written "^c": the superscript digits and minus are not ASCII)
DigitChar(d) ==
  CASE d = 0 -> "0" [] d = 1 -> "1" [] d = 2 -> "2" [] d = 3 -> "3" [] d = 4 -> "4"
    [] d = 5 -> "5" [] d = 6 -> "6" [] d = 7 -> "7" [] d = 8 -> "8" [] d = 9 -> "9"

RECURSIVE SuperscriptNat(_)
SuperscriptNat(n) ==
  IF n < 10 THEN "^" \o DigitChar(n)
  ELSE SuperscriptNat(n \div 10) \o "^" \o DigitChar(n % 10)

\* DataScaler._format_exponent
FormatExponent(exp) ==
  IF exp = 0 THEN ""
  ELSE IF exp < 0 THEN "^-" \o SuperscriptNat(-exp)
  ELSE SuperscriptNat(exp)

\* a label branch without the final else: exponent 0 is labelled too
ScaleLabelWithoutElse(exponent) == "x10" \o FormatExponent(exponent)

\* the label branch of analyze_data_range
ScaleLabel(exponent) ==
  IF exponent > 0 THEN "x10" \o FormatExponent(exponent)
  ELSE IF exponent < 0 THEN "x10" \o FormatExponent(exponent)
  ELSE ""

\* the (scale_factor, exponent, label) that analyze_data_range returns for
\* the no-scaling cases
IdentityScale == [factor |-> Fin(1, 0), exponent |-> 0, label |-> ""]

\* data[np.isfinite(data)]: the finite values of an array, as a set
ValidData(data) == {data.val[idx] : idx \in {i \in DOMAIN data.val : IsFinite(data.val[i])}}

\* np.max(np.abs(valid_data)) of a non-empty set of finite numbers
MaxAbs(valid) ==
  Bind({AbsVal(v) : v \in valid}, LAMBDA a :
    CHOOSE x \in a : \A y \in a : Leq(y, x))

\* the scale factor 10 ** exponent
ScaleFactor(exponent) == Fin(1, exponent)

\* an analyze_data_range whose band excludes its lower end 0.1
AnalyzeDataRangeAboveMin(data) ==
  IF DOMAIN data.val = {} THEN IdentityScale
  ELSE IF ValidData(data) = {} THEN IdentityScale
  ELSE Bind(MaxAbs(ValidData(data)), LAMBDA data_max :
       IF data_max.m = 0 THEN IdentityScale
       ELSE IF ~Leq(data_max, band_min_value) /\ Leq(data_max, target_max_value)
       THEN IdentityScale
       ELSE Bind(RoundLog10Scale(data_max), LAMBDA exponent :
              [factor |-> ScaleFactor(exponent), exponent |-> exponent,
               label |-> ScaleLabel(exponent)]))

\* DataScaler.analyze_data_range: [factor, exponent, label]
AnalyzeDataRange(data) ==
  IF DOMAIN data.val = {} THEN IdentityScale
  ELSE IF ValidData(data) = {} THEN IdentityScale
  ELSE Bind(MaxAbs(ValidData(data)), LAMBDA data_max :
       IF data_max.m = 0 THEN IdentityScale
       ELSE IF Leq(band_min_value, data_max) /\ Leq(data_max, target_max_value)
       THEN IdentityScale
       ELSE Bind(RoundLog10Scale(data_max), LAMBDA exponent :
              [factor |-> ScaleFactor(exponent), exponent |-> exponent,
               label |-> ScaleLabel(exponent)]))

\* a Python dict is a function from its keys; {} has no key
EmptyDict == [key \in {} |-> 0]

\* dict[key] = value
DictSet(d, key, value) == (key :> value) @@ d

\* DataScaler.__init__: the retained fields of a scaler
NewScaler ==
  [current_scale_factors |-> EmptyDict,
   current_scale_exponents |-> EmptyDict,
   current_scale_labels |-> EmptyDict,
   has_states_axis |-> FALSE,
   states_axis_index |-> NoneIndex]

\* data * scale_factor, the factor being 10 ** exponent
ScaleArray(data, exponent) ==
  [shape |-> data.shape,
   val |-> [idx \in DOMAIN data.val |-> MulPow10(data.val[idx], exponent)]]

\* the index tuples that state_slice selects: axis fixed to state_idx
SliceIndices(data, axis, state_idx) ==
  {idx \in DOMAIN data.val : idx[axis + 1] = state_idx}

\* data[state_slice]: the sub-array of one state (the axis is dropped)
StateData(data, axis, state_idx) ==
  LET n == Len(data.shape)
      shape == SubSeq(data.shape, 1, axis) \o SubSeq(data.shape, axis + 2, n)
      full(idx) == SubSeq(idx, 1, axis) \o <<state_idx>> \o SubSeq(idx, axis + 1, n - 1)
  IN [shape |-> shape, val |-> [idx \in Indices(shape) |-> data.val[full(idx)]]]

\* which slice's range the loop body analyzes for state_idx
AnalyzedState(data, axis, state_idx) == StateData(data, axis, state_idx)

\* one pass of the per-state loop of scale_data (lines 378-394) on
\* acc = [sc, scaled]
\* a per-state step that records a key only for a state it rescales
ScaleOneStateRecordScaledOnly(acc, data, axis, state_idx) ==
  Bind(AnalyzeDataRange(AnalyzedState(data, axis, state_idx)), LAMBDA r :
  Bind(SliceIndices(data, axis, state_idx), LAMBDA hit :
    IF r.factor = Fin(1, 0) THEN acc
    ELSE [sc |-> [acc.sc EXCEPT
                    !.current_scale_factors = DictSet(@, state_idx, r.factor),
                    !.current_scale_exponents = DictSet(@, state_idx, r.exponent),
                    !.current_scale_labels = DictSet(@, state_idx, r.label)],
          scaled |-> [acc.scaled EXCEPT
                        !.val = [idx \in DOMAIN @ |->
                                   IF idx \in hit
                                   THEN Stored(@[idx],
                                               MulPow10(data.val[idx], r.exponent))
                                   ELSE @[idx]]]]))

ScaleOneState(acc, data, axis, state_idx) ==
  Bind(AnalyzeDataRange(AnalyzedState(data, axis, state_idx)), LAMBDA r :
  Bind(SliceIndices(data, axis, state_idx), LAMBDA hit :
    [sc |-> [acc.sc EXCEPT
               !.current_scale_factors = DictSet(@, state_idx, r.factor),
               !.current_scale_exponents = DictSet(@, state_idx, r.exponent),
               !.current_scale_labels = DictSet(@, state_idx, r.label)],
     scaled |-> IF r.factor # Fin(1, 0)
                THEN [acc.scaled EXCEPT
                        !.val = [idx \in DOMAIN @ |->
                                   IF idx \in hit
                                   THEN Stored(@[idx],
                                               MulPow10(data.val[idx], r.exponent))
                                   ELSE @[idx]]]
                ELSE acc.scaled]))

\* for state_idx in range(n_states), from state_idx on
RECURSIVE ScaleStates(_, _, _, _, _)
ScaleStates(acc, data, axis, state_idx, n_states) ==
  IF state_idx >= n_states THEN acc
  ELSE Bind(ScaleOneState(acc, data, axis, state_idx), LAMBDA next :
         ScaleStates(next, data, axis, state_idx + 1, n_states))

\* a global branch that records the factor and the exponent and leaves the
\* labels dictionary as it finds it
ScaleGlobalKeepLabels(sc, r) ==
  [sc EXCEPT !.has_states_axis = FALSE,
             !.current_scale_factors = DictSet(EmptyDict, GlobalKey, r.factor),
             !.current_scale_exponents = DictSet(EmptyDict, GlobalKey, r.exponent)]

\* lines 356-363: the global branch replaces the three dictionaries
ScaleGlobal(sc, r) ==
  [sc EXCEPT !.has_states_axis = FALSE,
             !.current_scale_factors = DictSet(EmptyDict, GlobalKey, r.factor),
             !.current_scale_exponents = DictSet(EmptyDict, GlobalKey, r.exponent),
             !.current_scale_labels = DictSet(EmptyDict, GlobalKey, r.label)]

\* lines 356 and 371: the states branch sets the two flags and keeps the
\* dictionaries it finds
ScaleStatesEnter(sc, target_axes) ==
  [sc EXCEPT !.has_states_axis = TRUE,
             !.states_axis_index = IndexOf(target_axes, "STATES")]

\* DataScaler.scale_data: [sc, out, same]; same says that the array
\* returned is the argument itself and not a new array
\* a scale_data whose global branch adds its key to the dictionaries it finds
ScaleDataGlobalKeyAdded(sc, data, target_axes, auto_scale) ==
  IF ~auto_scale THEN [sc |-> sc, out |-> data, same |-> TRUE]
  ELSE IF ~Contains(target_axes, "STATES")
  THEN Bind(AnalyzeDataRange(data), LAMBDA r :
         [sc |-> [sc EXCEPT
                    !.has_states_axis = FALSE,
                    !.current_scale_factors = DictSet(@, GlobalKey, r.factor),
                    !.current_scale_exponents = DictSet(@, GlobalKey, r.exponent),
                    !.current_scale_labels = DictSet(@, GlobalKey, r.label)],
          out |-> IF r.factor # Fin(1, 0) THEN ScaleArray(data, r.exponent) ELSE data,
          same |-> r.factor = Fin(1, 0)])
  ELSE Bind(ScaleStatesEnter(sc, target_axes), LAMBDA entered :
       Bind(entered.states_axis_index, LAMBDA axis :
       Bind(ScaleStates([sc |-> entered, scaled |-> data], data, axis, 0,
                        data.shape[axis + 1]), LAMBDA acc :
         [sc |-> acc.sc, out |-> acc.scaled, same |-> FALSE])))

ScaleData(sc, data, target_axes, auto_scale) ==
  IF ~auto_scale THEN [sc |-> sc, out |-> data, same |-> TRUE]
  ELSE IF ~Contains(target_axes, "STATES")
  THEN Bind(AnalyzeDataRange(data), LAMBDA r :
         [sc |-> ScaleGlobal(sc, r),
          out |-> IF r.factor # Fin(1, 0) THEN ScaleArray(data, r.exponent) ELSE data,
          same |-> r.factor = Fin(1, 0)])
  ELSE Bind(ScaleStatesEnter(sc, target_axes), LAMBDA entered :
       Bind(entered.states_axis_index, LAMBDA axis :
       Bind(ScaleStates([sc |-> entered, scaled |-> data], data, axis, 0,
                        data.shape[axis + 1]), LAMBDA acc :
         [sc |-> acc.sc, out |-> acc.scaled, same |-> FALSE])))

\* DataScaler.get_scale_info
\* a get_scale_info that returns the scaler's own dictionaries
ReturnedDictShared(field) == "scaler"

\* the object behind a dictionary of the record get_scale_info returns:
\* self.current_scale_<field>.copy() belongs to the returned record
ReturnedDict(field) == "returned"

GetScaleInfo(sc) ==
  [factors |-> sc.current_scale_factors,
   exponents |-> sc.current_scale_exponents,
   labels |-> sc.current_scale_labels,
   is_scaled |-> \E key \in DOMAIN sc.current_scale_factors :
                    sc.current_scale_factors[key] # Fin(1, 0),
   has_states_axis |-> sc.has_states_axis,
   states_axis_index |-> sc.states_axis_index]

\* DataScaler.reset_scaling
\* a reset_scaling that resets the two STATES fields and keeps the dictionaries
ResetScalingKeepsKeys(sc) ==
  [sc EXCEPT !.has_states_axis = FALSE, !.states_axis_index = NoneIndex]

ResetScaling(sc) == NewScaler

(***************************************************************************)
(* ViewerSelector                                                          *)
(***************************************************************************)
\* ViewerSelector.select_viewer: [err, viewer]
SelectViewer(data_shape) ==
  LET ndim == Len(data_shape) IN
  CASE ndim = 1 -> [err |-> "none", viewer |-> "plot_1d"]
    [] ndim = 2 -> [err |-> "none", viewer |-> "plot_2d"]
    [] ndim = 3 -> [err |-> "none", viewer |-> "spectator"]
    [] ndim = 4 -> [err |-> "none", viewer |-> "plot_4d"]
    [] ndim = 5 -> [err |-> "none", viewer |-> "plot_5d"]
    [] OTHER -> [err |-> "UnsupportedRank", viewer |-> "none"]

(***************************************************************************)
(* Manager                                                                 *)
(***************************************************************************)
\* str(n) for a natural number
RECURSIVE StrNat(_)
StrNat(n) == IF n < 10 THEN DigitChar(n) ELSE StrNat(n \div 10) \o DigitChar(n % 10)

\* state_names=None, and a list of names
NoNames == [given |-> FALSE, names |-> <<>>]
Names(l) == [given |-> TRUE, names |-> l]

\* states_info = {}
NoStatesInfo == [present |-> FALSE, names |-> <<>>, count |-> 0, axis_index |-> NoneIndex]

\* [str(i+1) for i in range(n_states)]
DefaultNames(n_states) == [i \in 1..n_states |-> StrNat(i)]

\* Manager._parse_input_args: [err, input_axes, states_info]
ParseInputArgs(data, state_names, axes) ==
  IF Len(axes) # Len(data.shape)
  THEN [err |-> "AxisCountMismatch", input_axes |-> axes, states_info |-> NoStatesInfo]
  ELSE IF ~Contains(axes, "states")
  THEN [err |-> "none", input_axes |-> axes, states_info |-> NoStatesInfo]
  ELSE LET states_axis_index == IndexOf(axes, "states")
           n_states == data.shape[states_axis_index + 1]
       IN IF state_names.given /\ Len(state_names.names) > max_states
          THEN [err |-> "TooManyStates", input_axes |-> axes,
                states_info |-> NoStatesInfo]
          ELSE IF state_names.given /\ Len(state_names.names) # n_states
          THEN [err |-> "StateNamesCountMismatch", input_axes |-> axes,
                states_info |-> NoStatesInfo]
          ELSE [err |-> "none", input_axes |-> axes,
                states_info |->
                  [present |-> TRUE,
                   names |-> IF state_names.given THEN state_names.names
                             ELSE DefaultNames(n_states),
                   count |-> n_states,
                   axis_index |-> states_axis_index]]

\* the position the metadata loop leaves for a role: the last one holding
\* it, None when there is none
LastIndexOf(axes, t) ==
  IF Contains(axes, t)
  THEN (CHOOSE i \in 1..Len(axes) :
          axes[i] = t /\ \A j \in (i + 1)..Len(axes) : axes[j] # t) - 1
  ELSE NoneIndex

\* the positions holding a role, in increasing order
RECURSIVE PositionsOf(_, _, _)
PositionsOf(axes, t, from) ==
  IF from > Len(axes) THEN <<>>
  ELSE (IF axes[from] = t THEN <<from - 1>> ELSE <<>>) \o PositionsOf(axes, t, from + 1)

\* Manager._generate_viewer_metadata, with the scale_info that display_data
\* adds to it
GenerateViewerMetadata(data, axes, states_info, scale_info) ==
  [data_shape |-> data.shape,
   axes |-> [i \in 1..Len(axes) |-> AxisValue(axes[i])],
   states_info |-> states_info,
   states_axis |-> LastIndexOf(axes, "STATES"),
   spectral_axis |-> LastIndexOf(axes, "SPECTRAL"),
   spatial_axes |-> PositionsOf(axes, "SPATIAL", 1),
   time_axis |-> LastIndexOf(axes, "TIME"),
   scale_info |-> scale_info]

\* the environment of the runs: controllers.viewers and the packages it
\* imports (pyqtgraph, qdarkstyle) are installed, so the import of line 603
\* succeeds; where they are not, it raises ModuleNotFoundError
ViewersImportable == TRUE

\* Manager._create_viewer: [err, result].  The spectator branch imports
\* controllers.viewers before it tests the layout.  spectator(...) does not
\* return: it builds the window and runs the Qt event loop (viewers.py line
\* 386), so the call is then inside app.exec_(), result "event_loop"; what
\* happens there are the steps SpectatorDataLoaded and SpectatorExit.
\* a _create_viewer whose spectator branch only asks for STATES in front
CreateViewerStatesInFront(viewer_type, data, metadata) ==
  IF viewer_type = "spectator"
  THEN IF ~ViewersImportable
       THEN [err |-> "ModuleNotFoundError", result |-> "none"]
       ELSE IF Len(data.shape) = 3 /\ metadata.states_axis = 0
       THEN [err |-> "none", result |-> "event_loop"]
       ELSE [err |-> "NotImplementedViewerConfiguration", result |-> "none"]
  ELSE [err |-> "none", result |-> "placeholder"]

CreateViewer(viewer_type, data, metadata) ==
  IF viewer_type = "spectator"
  THEN IF ~ViewersImportable
       THEN [err |-> "ModuleNotFoundError", result |-> "none"]
       ELSE IF Len(data.shape) = 3
          /\ metadata.states_axis = 0
          /\ metadata.spectral_axis = 1
          /\ Contains(metadata.spatial_axes, 2)
       THEN [err |-> "none", result |-> "event_loop"]
       ELSE [err |-> "NotImplementedViewerConfiguration", result |-> "none"]
  ELSE [err |-> "none", result |-> "placeholder"]

\* what a display_data call leaves when it raises err: the scaler as the
\* call left it, nothing handed to a viewer
NoArray == [shape |-> <<>>, val |-> EmptyDict]
NoScaleInfo == GetScaleInfo(NewScaler)
NoMetadata == GenerateViewerMetadata(NoArray, <<>>, NoStatesInfo, NoScaleInfo)
Raised(err, sc) ==
  [err |-> err, sc |-> sc, handed |-> FALSE, out |-> NoArray, target_axes |-> <<>>,
   rearranged |-> NoArray, viewer |-> "none", result |-> "none", metadata |-> NoMetadata]

\* a display_data that resets the scaler before it reads the scale_info
ScaleInfoAfterReset(sc) == GetScaleInfo(ResetScaling(sc))

\* the scale_info that display_data embeds: get_scale_info() right after
\* scale_data
EmbeddedScaleInfo(sc) == GetScaleInfo(sc)

\* the log of lines 493-505, which reads the scale_info record: with
\* has_states_axis it reads labels[state_idx] for every rescaled key of
\* factors, without it factors['global'] and labels['global']; a missing
\* key raises KeyError
LogScaling(scale_info) ==
  IF ~scale_info.is_scaled THEN "none"
  ELSE IF scale_info.has_states_axis
  THEN IF \E key \in DOMAIN scale_info.factors :
            /\ scale_info.factors[key] # Fin(1, 0)
            /\ key \notin DOMAIN scale_info.labels
       THEN "KeyError" ELSE "none"
  ELSE IF GlobalKey \notin DOMAIN scale_info.factors
          \/ GlobalKey \notin DOMAIN scale_info.labels
  THEN "KeyError" ELSE "none"

\* Manager.display_data, up to its return, the exception it raises, or its
\* entry into the event loop of the spectator viewer (result "event_loop")
DisplayData(sc, data, axes, state_names, auto_scale) ==
  Bind(ParseInputArgs(data, state_names, axes), LAMBDA parsed :
  IF parsed.err # "none" THEN Raised(parsed.err, sc) ELSE
  Bind(ValidateAxisSpecification(parsed.input_axes), LAMBDA validated :
  IF validated.err # "none" THEN Raised(validated.err, sc) ELSE
  Bind(GetTargetOrder(validated.axes), LAMBDA target :
  IF target.err # "none" THEN Raised(target.err, sc) ELSE
  Bind(IF validated.axes # target.order
       THEN RearrangeData(data, validated.axes, target.order)
       ELSE [err |-> "none", data |-> data], LAMBDA rearranged :
  IF rearranged.err # "none" THEN Raised(rearranged.err, sc) ELSE
  Bind(ScaleData(sc, rearranged.data, target.order, auto_scale), LAMBDA scaled :
  Bind(EmbeddedScaleInfo(scaled.sc), LAMBDA scale_info :
  IF LogScaling(scale_info) # "none"
  THEN Raised(LogScaling(scale_info), scaled.sc) ELSE
  Bind(SelectViewer(scaled.out.shape), LAMBDA selected :
  IF selected.err # "none" THEN Raised(selected.err, scaled.sc) ELSE
  Bind(GenerateViewerMetadata(scaled.out, target.order,
                              parsed.states_info, scale_info), LAMBDA metadata :
  Bind(CreateViewer(selected.viewer, scaled.out, metadata), LAMBDA created :
  IF created.err # "none" THEN Raised(created.err, scaled.sc) ELSE
  [err |-> "none", sc |-> scaled.sc, handed |-> TRUE, out |-> scaled.out,
   target_axes |-> target.order, rearranged |-> rearranged.data,
   viewer |-> selected.viewer, result |-> created.result,
   metadata |-> metadata])))))))))

(***************************************************************************)
(* The arrays of the model.                                                *)
(***************************************************************************)
\* the magnitudes of the model, as m * 10^k: 3.2e7 (scaled by 1e-7),
\* 0.0158 (scaled by 1e3), 3.2 (in band), 10.5 (above the band, left alone)
MagPool ==
  <<[m |-> 320, k |-> 5], [m |-> 158, k |-> -4], [m |-> 320, k |-> -2], [m |-> 105, k |-> -1]>>

\* the size of the axis at position i (1-based) that is not a STATES axis
DimSize(i) == (i % DimMod) + 1

\* the shape of the array a caller labels with axes, n the STATES size
ShapeOf(axes, n) ==
  [i \in 1..Len(axes) |-> IF Lower(axes[i]) = "states" THEN n ELSE DimSize(i)]

\* the row-major offset of idx, the axis at 0-based position skip left out
RECURSIVE Offset(_, _, _, _)
Offset(idx, shape, skip, i) ==
  IF i > Len(shape) THEN 0
  ELSE IF i = skip + 1 THEN Offset(idx, shape, skip, i + 1)
  ELSE idx[i] + shape[i] * Offset(idx, shape, skip, i + 1)

\* an array of pairwise distinct values: along the 0-based axis, slice i
\* has the magnitude MagPool[start + i] as its largest absolute value; with
\* axis = NoneIndex the whole array has the magnitude MagPool[start]
MkData(shape, axis, start) ==
  [shape |-> shape,
   val |-> [idx \in Indices(shape) |->
              LET i == IF axis = NoneIndex THEN 0 ELSE idx[axis + 1]
                  e == MagPool[((start + i) % Len(MagPool)) + 1]
              IN Norm(e.m - Offset(idx, shape, axis, 1), e.k)]]

\* the 0-based position of the states label of a label list, NoneIndex
\* when it has none
StatesPosition(axes) ==
  IF \E i \in 1..Len(axes) : Lower(axes[i]) = "states"
  THEN (CHOOSE i \in 1..Len(axes) : Lower(axes[i]) = "states"
                                    /\ \A j \in 1..(i - 1) : Lower(axes[j]) # "states") - 1
  ELSE NoneIndex

(***************************************************************************)
(* The calls of the sequential runs.                                       *)
(***************************************************************************)
\* the first magnitude of an array: MagPool[start + 1] with start in Starts
Starts == 0..(Len(MagPool) - 2)

\* label lists with a states axis that display_data is called with
StatesAxesLists ==
  {<<"states", "spectral", "spatial">>,
   <<"states", "spatial", "spectral">>}

\* label lists without a states axis: 2-D, 0-D, 3-D with two spatial axes
\* (in canonical order, and needing a permutation)
PlainAxesLists ==
  {<<"spectral", "spatial">>,
   <<>>,
   <<"time", "spatial", "spatial">>,
   <<"spatial", "spectral", "spatial">>}

\* label lists that validation rejects
BadAxesLists ==
  {<<"states", "states", "spatial">>,
   <<"flux", "spatial">>,
   <<"states">>}

DisplayCall(axes, shape, start, names, auto) ==
  [data |-> MkData(shape, StatesPosition(axes), start), axes |-> axes,
   names |-> names, auto |-> auto]

\* the display_data calls of the model
DisplayCalls ==
  {DisplayCall(axes, ShapeOf(axes, n), start, NoNames, TRUE) :
     axes \in StatesAxesLists, n \in 1..MaxStates, start \in Starts}
  \cup {DisplayCall(<<"States", "spectral", "spatial">>, <<n, DimSize(2), DimSize(3)>>,
                    0, NoNames, TRUE) : n \in 1..MaxStates}
  \cup {DisplayCall(<<"states", "spatial", "spectral">>, <<2, DimSize(2), DimSize(3)>>,
                    0, NoNames, FALSE)}
  \cup {DisplayCall(axes, ShapeOf(axes, 1), start, NoNames, TRUE) :
          axes \in PlainAxesLists, start \in Starts}
  \cup {DisplayCall(<<"spatial", "spectral">>, <<DimSize(1), DimSize(2)>>,
                    0, NoNames, FALSE)}
  \cup {DisplayCall(axes, ShapeOf(axes, 1), 0, NoNames, TRUE) : axes \in BadAxesLists}
  \cup {DisplayCall(<<"states", "spectral", "spatial">>, <<2, 1, 1>>, 0, names, TRUE) :
          names \in {Names(<<"I", "Q">>), Names(<<"I">>)}}
  \cup {DisplayCall(<<"spectral", "spatial">>, <<2, 1, 1>>, 0, NoNames, TRUE)}

ScaleCall(target_axes, n, start, auto) ==
  [data |-> MkData([i \in 1..Len(target_axes) |->
                      IF target_axes[i] = "STATES" THEN n ELSE DimSize(i)],
                   IF Contains(target_axes, "STATES")
                   THEN IndexOf(target_axes, "STATES") ELSE NoneIndex,
                   start),
   axes |-> target_axes, names |-> NoNames, auto |-> auto]

\* np.array([[32, 35], [1, 2]]), an array of integer dtype: 35 is above the
\* band and 2 inside it
IntegerArray ==
  [shape |-> <<2, 2>>,
   val |-> (<<0, 0>> :> IntOf(32)) @@ (<<0, 1>> :> IntOf(35))
           @@ (<<1, 0>> :> IntOf(1)) @@ (<<1, 1>> :> IntOf(2))]

\* the direct scale_data calls of the model: the viewer's update call on
\* (STATES, SPECTRAL, SPATIAL) data, a STATES axis in second position,
\* data without a STATES axis, and the array of integers with and without
\* a STATES axis
ScaleCalls ==
  {ScaleCall(<<"STATES", "SPECTRAL", "SPATIAL">>, n, start, TRUE) :
     n \in 1..MaxStates, start \in Starts}
  \cup {ScaleCall(<<"SPECTRAL", "STATES">>, n, 0, TRUE) : n \in 1..MaxStates}
  \cup {ScaleCall(<<"SPATIAL">>, 1, start, TRUE) : start \in Starts}
  \cup {ScaleCall(<<"STATES", "SPECTRAL", "SPATIAL">>, 1, 0, FALSE)}
  \cup {[data |-> IntegerArray, axes |-> axes, names |-> NoNames, auto |-> TRUE] :
          axes \in {<<"STATES", "SPATIAL">>, <<"SPECTRAL", "SPATIAL">>}}

\* every label list of at most MaxLabels labels
LabelLists == UNION {[1..n -> Labels] : n \in 0..MaxLabels}

(***************************************************************************)
(* State.                                                                  *)
(*   scaler    the DataScaler of the global Manager (data_manager.scaler)  *)
(*   last      the most recent call on the Manager and what it returned    *)
(*   pipe      one pass through validation, target order and permutation   *)
(*   inflight  the display_data calls in progress in the overlapping runs  *)
(*   probe     one array taken through analyze_data_range and a rescaling  *)
(***************************************************************************)
VARIABLES scaler, last, pipe, inflight, probe

vars == <<scaler, last, pipe, inflight, probe>>

NoCall == [data |-> NoArray, axes |-> <<>>, names |-> NoNames, auto |-> TRUE]
NoLast == [op |-> "none"]
NoResult == [err |-> "none", data |-> NoArray]
NoPipe ==
  [phase |-> "idle", labels |-> <<>>, validated |-> [err |-> "none", axes |-> <<>>],
   target |-> [err |-> "none", order |-> <<>>], data |-> NoArray,
   mapping |-> <<>>, fwd |-> NoResult, back |-> NoResult]

NoProbe == [phase |-> "idle"]

(***************************************************************************)
(* Sequential runs of the Manager: any sequence of display_data, direct    *)
(* scale_data, reset_data_scaling and get_current_scale_info calls.  A     *)
(* display_data call that reaches the spectator viewer stays inside the    *)
(* viewer's event loop, where only the slot update_spectator_data touches  *)
(* the Manager, until the loop ends and SystemExit leaves the call; the    *)
(* caller that catches it goes on calling.                                 *)
(***************************************************************************)
Init ==
  /\ scaler = NewScaler
  /\ last = NoLast
  /\ pipe = NoPipe
  /\ inflight = <<>>
  /\ probe = NoProbe

\* the thread is inside app.exec_(): display_data entered the event loop of
\* the spectator viewer and the loop has not ended
InEventLoop ==
  \/ last.op = "display" /\ last.res.result = "event_loop"
  \/ last.op = "update"

\* data_manager.display_data(data, *axes, state_names=..., auto_scale=...),
\* up to its return, its exception or its entry into the event loop
Display ==
  /\ ~InEventLoop
  /\ \E call \in DisplayCalls :
    \E r \in {DisplayData(scaler, call.data, call.axes, call.names, call.auto)} :
    /\ scaler' = r.sc
    /\ last' = [op |-> "display", call |-> call, same |-> FALSE, res |-> r]
    /\ UNCHANGED <<pipe, inflight, probe>>

\* the slot update_spectator_data (viewers.py lines 66-92) on a scaler:
\* reset_data_scaling(), then scale_data(new_data, [STATES, SPECTRAL,
\* SPATIAL], auto_scale=True); the get_current_scale_info() and the log that
\* follow read through .get and change nothing
UpdateSpectatorData(sc, new_data) ==
  ScaleData(ResetScaling(sc), new_data, <<"STATES", "SPECTRAL", "SPATIAL">>, TRUE)

\* the arrays a file loaded in the viewer hands to the slot: 1 to MaxStates
\* states, the first of magnitude 0.0158
LoadedArrays ==
  {ScaleCall(<<"STATES", "SPECTRAL", "SPATIAL">>, n, 1, TRUE).data : n \in 1..MaxStates}

\* inside the event loop the user loads a file: dataLoaded (connected at
\* viewers.py line 233) runs the slot
SpectatorDataLoaded ==
  /\ InEventLoop
  /\ \E new_data \in LoadedArrays :
       \E r \in {UpdateSpectatorData(scaler, new_data)} :
       /\ scaler' = r.sc
       /\ last' = [op |-> "update",
                   call |-> [data |-> new_data,
                             axes |-> <<"STATES", "SPECTRAL", "SPATIAL">>,
                             names |-> NoNames, auto |-> TRUE],
                   same |-> r.same,
                   res |-> [Raised("none", r.sc) EXCEPT !.out = r.out]]
  /\ UNCHANGED <<pipe, inflight, probe>>

\* the event loop ends: sys.exit(app.exec_()) raises SystemExit out of
\* spectator(), _create_viewer and display_data (viewers.py line 386)
SpectatorExit ==
  /\ InEventLoop
  /\ scaler' = scaler
  /\ last' = [op |-> "exit", call |-> NoCall, same |-> FALSE,
              res |-> [Raised("SystemExit", scaler) EXCEPT !.handed = TRUE]]
  /\ UNCHANGED <<pipe, inflight, probe>>

\* data_manager.scaler.scale_data(data, target_axes, auto_scale)
Scale ==
  /\ ~InEventLoop
  /\ \E call \in ScaleCalls :
    \E r \in {ScaleData(scaler, call.data, call.axes, call.auto)} :
    /\ scaler' = r.sc
    /\ last' = [op |-> "scale", call |-> call, same |-> r.same,
                res |-> [Raised("none", r.sc) EXCEPT !.out = r.out]]
    /\ UNCHANGED <<pipe, inflight, probe>>

\* data_manager.reset_data_scaling()
Reset ==
  /\ ~InEventLoop
  /\ scaler' = ResetScaling(scaler)
  /\ last' = [op |-> "reset", call |-> NoCall, same |-> FALSE,
              res |-> Raised("none", ResetScaling(scaler))]
  /\ UNCHANGED <<pipe, inflight, probe>>

\* data_manager.get_current_scale_info()
GetCurrentScaleInfo ==
  /\ ~InEventLoop
  /\ scaler' = scaler
  /\ last' = [op |-> "info", call |-> NoCall, same |-> FALSE,
              res |-> [Raised("none", scaler) EXCEPT
                         !.metadata.scale_info = GetScaleInfo(scaler)]]
  /\ UNCHANGED <<pipe, inflight, probe>>

\* the caller of get_current_scale_info() assigns info[field][key] = value in
\* the three dictionaries of the record it got back
MutateReturnedInfo ==
  /\ last.op = "info"
  /\ \E key \in {GlobalKey, 0} :
       /\ last' = [last EXCEPT
                     !.op = "mutated",
                     !.res.metadata.scale_info.factors = DictSet(@, key, Fin(2, 0)),
                     !.res.metadata.scale_info.exponents = DictSet(@, key, 1),
                     !.res.metadata.scale_info.labels = DictSet(@, key, "edited")]
       /\ scaler' = [scaler EXCEPT
                       !.current_scale_factors =
                          IF ReturnedDict("factors") = "scaler"
                          THEN DictSet(@, key, Fin(2, 0)) ELSE @,
                       !.current_scale_exponents =
                          IF ReturnedDict("exponents") = "scaler"
                          THEN DictSet(@, key, 1) ELSE @,
                       !.current_scale_labels =
                          IF ReturnedDict("labels") = "scaler"
                          THEN DictSet(@, key, "edited") ELSE @]
  /\ UNCHANGED <<pipe, inflight, probe>>

Next ==
  \/ Display \/ SpectatorDataLoaded \/ SpectatorExit
  \/ Scale \/ Reset \/ GetCurrentScaleInfo \/ MutateReturnedInfo

Spec == Init /\ [][Next]_vars

(***************************************************************************)
(* The axis pipeline on every label list: validate_axis_specification,     *)
(* get_target_order, rearrange_data (as display_data sequences them) and   *)
(* the permutation back from the target order to the caller's order.       *)
(***************************************************************************)
InitAxes ==
  /\ scaler = NewScaler
  /\ last = NoLast
  /\ inflight = <<>>
  /\ probe = NoProbe
  /\ \E labels \in LabelLists : pipe = [NoPipe EXCEPT !.phase = "labels", !.labels = labels]

\* validated_axes = self.dimensionality.validate_axis_specification(input_axes)
PipeValidate ==
  /\ pipe.phase = "labels"
  /\ pipe' = [pipe EXCEPT !.phase = "validated",
                          !.validated = ValidateAxisSpecification(pipe.labels)]
  /\ UNCHANGED <<scaler, last, inflight, probe>>

\* target_axes = self.rearranger.get_target_order(validated_axes)
PipeTargetOrder ==
  /\ pipe.phase = "validated"
  /\ pipe.validated.err = "none"
  /\ pipe' = [pipe EXCEPT !.phase = "ordered",
                          !.target = GetTargetOrder(pipe.validated.axes),
                          !.data = MkData(ShapeOf(pipe.labels, 2), NoneIndex, 0)]
  /\ UNCHANGED <<scaler, last, inflight, probe>>

\* if validated_axes != target_axes: rearrange_data(data, validated_axes, target_axes)
PipeRearrange ==
  /\ pipe.phase = "ordered"
  /\ pipe.target.err = "none"
  /\ pipe.validated.axes # pipe.target.order
  /\ pipe' = [pipe EXCEPT
                !.phase = "rearranged",
                !.mapping = IF \A i \in 1..Len(pipe.target.order) :
                                  Contains(pipe.validated.axes, pipe.target.order[i])
                            THEN AxisMapping(pipe.validated.axes, pipe.target.order)
                            ELSE <<>>,
                !.fwd = RearrangeData(pipe.data, pipe.validated.axes, pipe.target.order)]
  /\ UNCHANGED <<scaler, last, inflight, probe>>

\* else: rearranged_data = data
PipeKeep ==
  /\ pipe.phase = "ordered"
  /\ pipe.target.err = "none"
  /\ pipe.validated.axes = pipe.target.order
  /\ pipe' = [pipe EXCEPT !.phase = "kept", !.fwd = [err |-> "none", data |-> pipe.data]]
  /\ UNCHANGED <<scaler, last, inflight, probe>>

\* the way back: rearrange_data(rearranged, target_axes, validated_axes)
PipeRestore ==
  /\ pipe.phase = "rearranged"
  /\ pipe.fwd.err = "none"
  /\ pipe' = [pipe EXCEPT
                !.phase = "restored",
                !.back = RearrangeData(pipe.fwd.data, pipe.target.order, pipe.validated.axes)]
  /\ UNCHANGED <<scaler, last, inflight, probe>>

NextAxes == PipeValidate \/ PipeTargetOrder \/ PipeRearrange \/ PipeKeep \/ PipeRestore

SpecAxes == InitAxes /\ [][NextAxes]_vars
(***************************************************************************)
(* analyze_data_range on one array, the array multiplied by the factor it  *)
(* returns, and analyze_data_range on the result.                          *)
(***************************************************************************)
\* the 3 x 1 array [[x], [-x / 10], [tail]] with tail NaN or 0: its largest
\* finite absolute value is |x|
ProbeTails == {NaN, Fin(0, 0)}

ProbeArray(x, tail) ==
  [shape |-> <<3, 1>>,
   val |-> [idx \in Indices(<<3, 1>>) |->
              CASE idx[1] = 0 -> x
                [] idx[1] = 1 -> Norm(-x.m, x.k - 1)
                [] OTHER -> tail]]

\* the 3 x 1 array [[a], [b], [c]]
Column(a, b, c) ==
  [shape |-> <<3, 1>>,
   val |-> [idx \in Indices(<<3, 1>>) |->
              CASE idx[1] = 0 -> a [] idx[1] = 1 -> b [] OTHER -> c]]

\* the arrays of the numeric edge cases: empty (no row, or rows of no
\* element), no finite value, finite values all zero, and arrays that hold
\* such rows beside a row of magnitude 3.2e6
EdgeArrays ==
  {[shape |-> <<0, 1>>, val |-> EmptyDict],
   [shape |-> <<2, 0>>, val |-> EmptyDict],
   Column(NaN, Inf, NaN),
   Column(Fin(0, 0), Fin(0, 0), Fin(0, 0)),
   Column(Fin(0, 0), NaN, Inf),
   Column(Fin(32, 5), Fin(0, 0), NaN),
   Column(Inf, Fin(32, 5), Fin(0, 0))}

\* the 3 x 1 arrays of integer dtype [[n], [-(n // 2)], [0]] for
\* n = m * 10^k
IntegerDecades == {0, 5}

IntegerColumns ==
  {Column(IntOf(m * Pow10(k)), IntOf(-((m * Pow10(k)) \div 2)), IntOf(0)) :
     m \in 1..MaxMantissa, k \in IntegerDecades}

\* the target_axes scale_data is called with on the array: without and
\* with a STATES axis
ProbeAxes == {<<"SPECTRAL", "SPATIAL">>, <<"STATES", "SPATIAL">>}

InitRange ==
  /\ scaler = NewScaler
  /\ last = NoLast
  /\ pipe = NoPipe
  /\ inflight = <<>>
  /\ \E data \in EdgeArrays \cup IntegerColumns \cup
                  {ProbeArray(Norm(sign * m, k), tail) :
                     m \in 1..MaxMantissa, k \in (-MaxDecade)..MaxDecade,
                     sign \in {-1, 1}, tail \in ProbeTails} :
       probe = [phase |-> "array", data |-> data,
                first |-> IdentityScale, scaled |-> NoArray, second |-> IdentityScale,
                axes |-> <<>>, out |-> NoArray]

\* scale_factor, exponent, label = self.analyze_data_range(data)
RangeAnalyze ==
  /\ probe.phase = "array"
  /\ probe' = [probe EXCEPT !.phase = "analyzed", !.first = AnalyzeDataRange(probe.data)]
  /\ UNCHANGED <<scaler, last, pipe, inflight>>

\* data * scale_factor when the factor is not 1.0, and its analysis
RangeRescale ==
  /\ probe.phase = "analyzed"
  /\ LET scaled == IF probe.first.factor # Fin(1, 0)
                   THEN ScaleArray(probe.data, probe.first.exponent)
                   ELSE probe.data
     IN probe' = [probe EXCEPT !.phase = "rescaled", !.scaled = scaled,
                               !.second = AnalyzeDataRange(scaled)]
  /\ UNCHANGED <<scaler, last, pipe, inflight>>

\* scaler.scale_data(data, target_axes) on a fresh scaler
RangeScale ==
  /\ probe.phase = "array"
  /\ \E axes \in ProbeAxes :
       \E r \in {ScaleData(scaler, probe.data, axes, TRUE)} :
         /\ scaler' = r.sc
         /\ probe' = [probe EXCEPT !.phase = "scaled", !.axes = axes, !.out = r.out]
  /\ UNCHANGED <<last, pipe, inflight>>

NextRange == RangeAnalyze \/ RangeRescale \/ RangeScale

SpecRange == InitRange /\ [][NextRange]_vars

(***************************************************************************)
(* Two display_data calls in flight on the one Manager.  Nothing in the    *)
(* code locks the scaler, so the calls interleave between statements.  A   *)
(* step is one statement that reads or writes a field of the scaler, with  *)
(* the statements after it that touch only the call's own variables:       *)
(*   begin        472-485  parse, validate, target order, permutation      *)
(*   enter        352-356  auto_scale test; write has_states_axis          *)
(*   branch       358      read has_states_axis                            *)
(*   g_factors    360-361  analyze the array; replace current_scale_factors*)
(*   g_exponents  362      replace current_scale_exponents                 *)
(*   g_labels     363-368  replace current_scale_labels; multiply          *)
(*   index        371      write states_axis_index                         *)
(*   n_states     372-375  read states_axis_index; copy the array          *)
(*   slice        378-385  loop test; one read of states_axis_index for    *)
(*                         each axis of the array (the items of the        *)
(*                         generator of lines 380-381), one step a read;   *)
(*                         with the last one, data[state_slice] and its    *)
(*                         analysis                                        *)
(*   s_factors    388      current_scale_factors[state_idx] = ...          *)
(*   s_exponents  389      current_scale_exponents[state_idx] = ...        *)
(*   s_labels     390-394  current_scale_labels[state_idx] = ...; assign   *)
(*                         the rescaled slice                              *)
(*   is_scaled    406      get_scale_info: the iterator over               *)
(*                         current_scale_factors.values() is made          *)
(*   any          406      one value is taken from the iterator, one step  *)
(*                         a value, until any() has its answer; a          *)
(*                         dictionary that changed size since the iterator *)
(*                         was made raises RuntimeError                    *)
(*   r_factors    409      copy current_scale_factors                      *)
(*   r_exponents  410      copy current_scale_exponents                    *)
(*   r_labels     411      copy current_scale_labels                       *)
(*   r_has        413      read has_states_axis                            *)
(*   r_index      414      read states_axis_index                          *)
(*   log          493-505  the log of the scale_info record                *)
(*   finish       509-517  viewer selection, metadata, viewer              *)
(*   viewing               inside the event loop of the spectator viewer   *)
(* In lines 388-390 and 409-411 the dictionary is loaded from the scaler   *)
(* and then written or copied; a replacement of the dictionary by the      *)
(* other call between the two leaves what the same replacement leaves      *)
(* after the write or the copy, so each of these lines is one step.        *)
(* The two calls are any two of OverlapCalls (which of the two is call 1   *)
(* makes no difference).  No file is loaded in a viewer during these runs, *)
(* so the slot update_spectator_data does not run in them (it does in the  *)
(* sequential runs).                                                       *)
(* Each call also records solo, the scale_info it would read if it ran     *)
(* from enter to its last read on its own, and overlapped, whether the     *)
(* other call wrote the scaler in between.                                 *)
(***************************************************************************)
\* the calls that overlap: a 3-D array with two states, a 2-D array whose
\* states axis stays in second position and is longer than the first axis
\* of any array here, an array without a states axis, and a call with
\* auto_scale=False
OverlapCalls ==
  <<DisplayCall(<<"states", "spectral", "spatial">>, <<2, DimSize(2), DimSize(3)>>,
                0, NoNames, TRUE),
    DisplayCall(<<"spectral", "states">>, <<DimSize(1), 3>>, 1, NoNames, TRUE),
    DisplayCall(<<"spectral", "spatial">>, <<DimSize(1), DimSize(2)>>,
                0, NoNames, TRUE),
    DisplayCall(<<"states", "spatial", "spectral">>, <<1, DimSize(2), DimSize(3)>>,
                MaxStates, NoNames, FALSE)>>

\* the iterator of line 406 over the values of a dictionary: used is the
\* size of the dictionary when the iterator was made and pos the number of
\* values taken; live says that the dictionary is still the one the scaler
\* holds, and snap is the dictionary if it is not (line 361 of the other
\* call has put a new one in its place, nothing writes the old one again)
NoIterator == [live |-> FALSE, snap |-> EmptyDict, used |-> 0, pos |-> 0]

InFlight(call) ==
  [call |-> call, pc |-> "begin", err |-> "none", target |-> <<>>, data |-> NoArray,
   scaled |-> NoArray, n_states |-> 0, state_idx |-> 0, i |-> 0, fixed |-> {},
   hit |-> {}, it |-> NoIterator,
   r |-> IdentityScale, info |-> NoScaleInfo, solo |-> NoScaleInfo,
   overlapped |-> FALSE, handed |-> FALSE]

InitOverlap ==
  /\ scaler = NewScaler
  /\ last = NoLast
  /\ pipe = NoPipe
  /\ probe = NoProbe
  /\ \E i, j \in 1..Len(OverlapCalls) :
       /\ i <= j
       /\ inflight = <<InFlight(OverlapCalls[i]), InFlight(OverlapCalls[j])>>

\* the other call of the two
Other(c) == 3 - c

\* where a call is after its enter step and before its last read of the
\* scaler
BetweenEnterAndLastRead ==
  {"branch", "g_factors", "g_exponents", "g_labels", "index", "n_states", "slice",
   "s_factors", "s_exponents", "s_labels", "is_scaled", "any", "r_factors",
   "r_exponents",
   "r_labels", "r_has", "r_index"}

\* a write to the scaler by call c disturbs the other call when that call
\* is between its enter and its last read
Disturb(f, c) ==
  [f EXCEPT ![Other(c)].overlapped = @ \/ f[Other(c)].pc \in BetweenEnterAndLastRead]

\* call c puts a new dictionary in the place of current_scale_factors: an
\* iterator of the other call stays on the dictionary it was made on
Detach(f, c) ==
  IF f[Other(c)].pc = "any" /\ f[Other(c)].it.live
  THEN [f EXCEPT ![Other(c)].it.live = FALSE,
                 ![Other(c)].it.snap = scaler.current_scale_factors]
  ELSE f

\* call c raises err
OverlapRaise(c, err) == [inflight EXCEPT ![c].pc = "raised", ![c].err = err]

OverlapBegin(c) ==
  /\ inflight[c].pc = "begin"
  /\ LET call == inflight[c].call
         parsed == ParseInputArgs(call.data, call.names, call.axes)
         validated == ValidateAxisSpecification(parsed.input_axes)
         target == GetTargetOrder(validated.axes)
         rearranged == IF validated.axes # target.order
                       THEN RearrangeData(call.data, validated.axes, target.order)
                       ELSE [err |-> "none", data |-> call.data]
         err == IF parsed.err # "none" THEN parsed.err
                ELSE IF validated.err # "none" THEN validated.err
                ELSE IF target.err # "none" THEN target.err
                ELSE rearranged.err
     IN inflight' = [inflight EXCEPT
                       ![c].pc = IF err = "none" THEN "enter" ELSE "raised",
                       ![c].err = err,
                       ![c].target = target.order,
                       ![c].data = rearranged.data]
  /\ UNCHANGED <<scaler, last, pipe, probe>>

\* lines 352-356
OverlapEnter(c) ==
  /\ inflight[c].pc = "enter"
  /\ LET me == inflight[c]
         solo == GetScaleInfo(ScaleData(scaler, me.data, me.target, me.call.auto).sc)
     IN IF ~me.call.auto
        THEN /\ inflight' = [inflight EXCEPT ![c].pc = "is_scaled",
                                             ![c].scaled = me.data,
                                             ![c].solo = solo]
             /\ scaler' = scaler
        ELSE /\ inflight' = Disturb([inflight EXCEPT ![c].pc = "branch",
                                                     ![c].solo = solo], c)
             /\ scaler' = [scaler EXCEPT
                             !.has_states_axis = Contains(me.target, "STATES")]
  /\ UNCHANGED <<last, pipe, probe>>

\* line 358: the branch is taken on the field of the scaler, which the
\* other call may have written since line 356
OverlapBranch(c) ==
  /\ inflight[c].pc = "branch"
  /\ inflight' = [inflight EXCEPT
                    ![c].pc = IF scaler.has_states_axis THEN "index" ELSE "g_factors"]
  /\ UNCHANGED <<scaler, last, pipe, probe>>

\* lines 360-368, one step for each of the three assignments
OverlapGlobal(c) ==
  /\ inflight[c].pc \in {"g_factors", "g_exponents", "g_labels"}
  /\ LET me == inflight[c] IN
     CASE me.pc = "g_factors" ->
            \E r \in {AnalyzeDataRange(me.data)} :
              /\ scaler' = [scaler EXCEPT
                              !.current_scale_factors =
                                 DictSet(EmptyDict, GlobalKey, r.factor)]
              /\ inflight' = Disturb(Detach([inflight EXCEPT ![c].pc = "g_exponents",
                                                             ![c].r = r], c), c)
       [] me.pc = "g_exponents" ->
            /\ scaler' = [scaler EXCEPT
                            !.current_scale_exponents =
                               DictSet(EmptyDict, GlobalKey, me.r.exponent)]
            /\ inflight' = Disturb([inflight EXCEPT ![c].pc = "g_labels"], c)
       [] me.pc = "g_labels" ->
            /\ scaler' = [scaler EXCEPT
                            !.current_scale_labels =
                               DictSet(EmptyDict, GlobalKey, me.r.label)]
            /\ inflight' = Disturb([inflight EXCEPT
                                      ![c].pc = "is_scaled",
                                      ![c].scaled =
                                         IF me.r.factor # Fin(1, 0)
                                         THEN ScaleArray(me.data, me.r.exponent)
                                         ELSE me.data], c)
  /\ UNCHANGED <<last, pipe, probe>>

\* line 371: target_axes.index(AxisType.STATES) raises ValueError for a call
\* without a STATES axis that the other call's flag sent here
OverlapIndex(c) ==
  /\ inflight[c].pc = "index"
  /\ LET me == inflight[c] IN
     IF ~Contains(me.target, "STATES")
     THEN /\ inflight' = OverlapRaise(c, "ValueError")
          /\ scaler' = scaler
     ELSE /\ inflight' = Disturb([inflight EXCEPT ![c].pc = "n_states"], c)
          /\ scaler' = [scaler EXCEPT
                          !.states_axis_index = IndexOf(me.target, "STATES")]
  /\ UNCHANGED <<last, pipe, probe>>

\* lines 372-375: data.shape[self.states_axis_index] with the index the
\* scaler holds now (None, after a reset, is no index: TypeError)
OverlapNStates(c) ==
  /\ inflight[c].pc = "n_states"
  /\ LET me == inflight[c]
         axis == scaler.states_axis_index
     IN inflight' =
          IF axis = NoneIndex THEN OverlapRaise(c, "TypeError")
          ELSE IF axis >= Len(me.data.shape) THEN OverlapRaise(c, "IndexError")
          ELSE [inflight EXCEPT ![c].pc = "slice",
                                ![c].n_states = me.data.shape[axis + 1],
                                ![c].scaled = me.data,
                                ![c].state_idx = 0]
  /\ UNCHANGED <<scaler, last, pipe, probe>>

\* the index tuples of data[state_slice]: state_slice holds state_idx at the
\* axes of fixed and slice(None) at the others
SelectedIndices(data, fixed, state_idx) ==
  {idx \in DOMAIN data.val : \A axis \in fixed : idx[axis + 1] = state_idx}

\* data[state_slice] as the values analyze_data_range looks at
SelectedData(data, hit) ==
  [shape |-> <<Cardinality(hit)>>, val |-> [idx \in hit |-> data.val[idx]]]

\* lines 378-385: the loop test, and for another pass the slice and its
\* analysis.  The generator of lines 380-381 reads self.states_axis_index
\* once for each axis i of the array, as the scaler holds it at that
\* moment: the slice fixes every axis that equalled the index when it was
\* read (none, one or several).  data[state_slice] raises IndexError when
\* state_idx is outside a fixed axis.
OverlapSlice(c) ==
  /\ inflight[c].pc = "slice"
  /\ LET me == inflight[c]
         ndim == Len(me.data.shape)
         fixed == IF scaler.states_axis_index = me.i
                  THEN me.fixed \union {me.i} ELSE me.fixed
     IN inflight' =
          IF me.i = 0 /\ me.state_idx >= me.n_states
          THEN [inflight EXCEPT ![c].pc = "is_scaled"]
          ELSE IF me.i + 1 < ndim
          THEN [inflight EXCEPT ![c].i = me.i + 1, ![c].fixed = fixed]
          ELSE IF \E axis \in fixed : me.state_idx >= me.data.shape[axis + 1]
          THEN OverlapRaise(c, "IndexError")
          ELSE Bind(SelectedIndices(me.data, fixed, me.state_idx), LAMBDA hit :
                 [inflight EXCEPT
                    ![c].pc = "s_factors",
                    ![c].i = 0,
                    ![c].fixed = {},
                    ![c].hit = hit,
                    ![c].r = AnalyzeDataRange(SelectedData(me.data, hit))])
  /\ UNCHANGED <<scaler, last, pipe, probe>>

\* lines 388-394, one step for each of the three assignments; the
\* dictionaries written are the ones the scaler holds now
OverlapLoop(c) ==
  /\ inflight[c].pc \in {"s_factors", "s_exponents", "s_labels"}
  /\ LET me == inflight[c] IN
     CASE me.pc = "s_factors" ->
            /\ scaler' = [scaler EXCEPT
                            !.current_scale_factors = DictSet(@, me.state_idx, me.r.factor)]
            /\ inflight' = Disturb([inflight EXCEPT ![c].pc = "s_exponents"], c)
       [] me.pc = "s_exponents" ->
            /\ scaler' = [scaler EXCEPT
                            !.current_scale_exponents =
                               DictSet(@, me.state_idx, me.r.exponent)]
            /\ inflight' = Disturb([inflight EXCEPT ![c].pc = "s_labels"], c)
       [] me.pc = "s_labels" ->
            /\ scaler' = [scaler EXCEPT
                            !.current_scale_labels = DictSet(@, me.state_idx, me.r.label)]
            /\ inflight' = Disturb([inflight EXCEPT
                                      ![c].pc = "slice",
                                      ![c].state_idx = @ + 1,
                                      ![c].scaled =
                                         IF me.r.factor # Fin(1, 0)
                                         THEN [@ EXCEPT
                                                 !.val = [idx \in DOMAIN @ |->
                                                            IF idx \in me.hit
                                                            THEN Stored(@[idx],
                                                                   MulPow10(me.data.val[idx],
                                                                            me.r.exponent))
                                                            ELSE @[idx]]]
                                         ELSE @], c)
  /\ UNCHANGED <<last, pipe, probe>>

\* the keys of a dictionary in the order a loop over it meets them, the
\* order of insertion: line 361 makes a dictionary with 'global' alone, and
\* line 388 adds state_idx, which every call counts up from 0
RECURSIVE InsertionOrder(_)
InsertionOrder(keys) ==
  IF keys = {} THEN <<>>
  ELSE LET first == CHOOSE key \in keys : \A other \in keys : key <= other
       IN <<first>> \o InsertionOrder(keys \ {first})

\* any(factor != 1.0 for factor in ...values()), one value: [err, done,
\* is_scaled, it].  The iterator first compares the size of its dictionary
\* with the size it was made on, then ends or yields the next value, and
\* any() stops at the first factor that is not 1.0
AnyNext(it, factors) ==
  LET keys == InsertionOrder(DOMAIN factors) IN
  IF Cardinality(DOMAIN factors) # it.used
  THEN [err |-> "RuntimeError", done |-> TRUE, is_scaled |-> FALSE, it |-> NoIterator]
  ELSE IF it.pos >= Len(keys)
  THEN [err |-> "none", done |-> TRUE, is_scaled |-> FALSE, it |-> NoIterator]
  ELSE IF factors[keys[it.pos + 1]] # Fin(1, 0)
  THEN [err |-> "none", done |-> TRUE, is_scaled |-> TRUE, it |-> NoIterator]
  ELSE [err |-> "none", done |-> FALSE, is_scaled |-> FALSE,
        it |-> [it EXCEPT !.pos = @ + 1]]

\* line 492, get_scale_info(): lines 406-414 read the fields of the scaler
\* one after the other, line 406 one value of the dictionary at a time
OverlapRead(c) ==
  /\ inflight[c].pc \in {"is_scaled", "any", "r_factors", "r_exponents", "r_labels",
                         "r_has", "r_index"}
  /\ LET me == inflight[c]
         now == EmbeddedScaleInfo(scaler)
     IN inflight' =
          CASE me.pc = "is_scaled" ->
                 [inflight EXCEPT
                    ![c].pc = "any",
                    ![c].it = [live |-> TRUE, snap |-> EmptyDict,
                               used |-> Cardinality(DOMAIN scaler.current_scale_factors),
                               pos |-> 0]]
            [] me.pc = "any" ->
                 Bind(AnyNext(me.it, IF me.it.live THEN scaler.current_scale_factors
                                     ELSE me.it.snap), LAMBDA step :
                   IF step.err # "none" THEN OverlapRaise(c, step.err)
                   ELSE IF step.done
                   THEN [inflight EXCEPT ![c].pc = "r_factors",
                                         ![c].it = step.it,
                                         ![c].info.is_scaled = step.is_scaled]
                   ELSE [inflight EXCEPT ![c].it = step.it])
            [] me.pc = "r_factors" ->
                 [inflight EXCEPT ![c].pc = "r_exponents",
                                  ![c].info.factors = now.factors]
            [] me.pc = "r_exponents" ->
                 [inflight EXCEPT ![c].pc = "r_labels",
                                  ![c].info.exponents = now.exponents]
            [] me.pc = "r_labels" ->
                 [inflight EXCEPT ![c].pc = "r_has",
                                  ![c].info.labels = now.labels]
            [] me.pc = "r_has" ->
                 [inflight EXCEPT ![c].pc = "r_index",
                                  ![c].info.has_states_axis = now.has_states_axis]
            [] me.pc = "r_index" ->
                 [inflight EXCEPT ![c].pc = "log",
                                  ![c].info.states_axis_index = now.states_axis_index]
  /\ UNCHANGED <<scaler, last, pipe, probe>>

\* lines 493-505: the log reads the record; a record mixed from two calls
\* can miss the key it looks up
OverlapLog(c) ==
  /\ inflight[c].pc = "log"
  /\ inflight' = IF LogScaling(inflight[c].info) # "none"
                 THEN OverlapRaise(c, LogScaling(inflight[c].info))
                 ELSE [inflight EXCEPT ![c].pc = "finish"]
  /\ UNCHANGED <<scaler, last, pipe, probe>>

\* lines 509-517: the call returns the placeholder record, raises, or is
\* from now on inside the event loop of the spectator viewer
OverlapFinish(c) ==
  /\ inflight[c].pc = "finish"
  /\ LET me == inflight[c]
         selected == SelectViewer(me.scaled.shape)
         metadata == GenerateViewerMetadata(me.scaled, me.target, NoStatesInfo, me.info)
         created == CreateViewer(selected.viewer, me.scaled, metadata)
         err == IF selected.err # "none" THEN selected.err ELSE created.err
     IN inflight' = [inflight EXCEPT
                       ![c].pc = IF err # "none" THEN "raised"
                                 ELSE IF created.result = "event_loop" THEN "viewing"
                                 ELSE "done",
                       ![c].err = err,
                       ![c].handed = (err = "none")]
  /\ UNCHANGED <<scaler, last, pipe, probe>>

\* the event loop of the call's viewer ends: SystemExit leaves display_data
OverlapExit(c) ==
  /\ inflight[c].pc = "viewing"
  /\ inflight' = [inflight EXCEPT ![c].pc = "exited", ![c].err = "SystemExit"]
  /\ UNCHANGED <<scaler, last, pipe, probe>>

NextOverlap ==
  \E c \in {1, 2} :
    \/ OverlapBegin(c) \/ OverlapEnter(c) \/ OverlapBranch(c) \/ OverlapGlobal(c)
    \/ OverlapIndex(c) \/ OverlapNStates(c) \/ OverlapSlice(c) \/ OverlapLoop(c)
    \/ OverlapRead(c) \/ OverlapLog(c) \/ OverlapFinish(c) \/ OverlapExit(c)

SpecOverlap == InitOverlap /\ [][NextOverlap]_vars

(***************************************************************************)
(* One display_data call on a fresh Manager, for a label list of the       *)
(* model, with an array of the labelled rank or of another rank, and with  *)
(* state_names absent, fitting, too few or above the cap.                  *)
(***************************************************************************)
\* the label lists of the calls: every list of fewer than max_dimensions
\* labels, and the longer lists (up to MaxLabels) whose labels after the
\* first are AxisType values
CallLabelLists ==
  UNION {[1..n -> Labels] : n \in 0..(max_dimensions - 1)}
  \cup UNION {{<<first>> \o rest : first \in Labels,
                                   rest \in [1..(n - 1) -> {AxisValue(t) : t \in AxisType}]} :
              n \in max_dimensions..MaxLabels}

\* the first n of the Stokes names
StokesNames(n) == SubSeq(<<"I", "Q", "U", "V">>, 1, n)

\* the state_names arguments of the model: None, one name per state, one
\* name too few, one name more than max_states
CallNames ==
  {NoNames, Names(StokesNames(MaxStates)), Names(StokesNames(MaxStates - 1)),
   Names(DefaultNames(max_states + 1))}

\* the shape of the array of the labelled rank: a STATES axis has MaxStates
\* entries; beyond max_dimensions the other axes have one entry
CallShape(labels) ==
  IF Len(labels) <= max_dimensions THEN ShapeOf(labels, MaxStates)
  ELSE [i \in 1..Len(labels) |-> IF Lower(labels[i]) = "states" THEN MaxStates ELSE 1]

\* an array whose rank is the number of labels, and an array of another rank
\* a shape for at most 3 labels whose states axis has one state more than
\* max_states, every other axis one element
OverCapShape(labels) ==
  [i \in 1..Len(labels) |-> IF Lower(labels[i]) = "states" THEN max_states + 1 ELSE 1]

CallArrays(labels) ==
  {MkData(CallShape(labels), StatesPosition(labels), 0),
   IF Len(labels) = 3
   THEN MkData(<<DimSize(1), DimSize(2)>>, NoneIndex, 0)
   ELSE MkData(<<DimSize(1), DimSize(2), DimSize(3)>>, NoneIndex, 0)}
     \cup (IF Len(labels) <= 3 /\ StatesPosition(labels) # NoneIndex
           THEN {MkData(OverCapShape(labels), StatesPosition(labels), 0)}
           ELSE {})

InitCalls ==
  /\ scaler = NewScaler
  /\ pipe = NoPipe
  /\ inflight = <<>>
  /\ probe = NoProbe
  /\ \E labels \in CallLabelLists : \E data \in CallArrays(labels) : \E names \in CallNames :
       last = [op |-> "call",
               call |-> [data |-> data, axes |-> labels, names |-> names, auto |-> TRUE]]

\* data_manager.display_data(data, *axes, state_names=...)
CallDisplay ==
  /\ last.op = "call"
  /\ \E r \in {DisplayData(scaler, last.call.data, last.call.axes, last.call.names,
                           last.call.auto)} :
       /\ scaler' = r.sc
       /\ last' = [op |-> "display", call |-> last.call, same |-> FALSE, res |-> r]
  /\ UNCHANGED <<pipe, inflight, probe>>

\* the one call, and what happens inside the event loop it may enter
NextCalls == CallDisplay \/ SpectatorDataLoaded \/ SpectatorExit

SpecCalls == InitCalls /\ [][NextCalls]_vars

(***************************************************************************)
(* ndarray buffers.  A heap maps a buffer name to the values it holds; an  *)
(* ndarray object is a reference [buf, shape, at]: a view of buffer buf in *)
(* which the element at index idx is the buffer's element at at[idx].      *)
(* "caller" is the buffer of the array passed in, "product" the result of  *)
(* data * scale_factor, "copy" the result of data.copy().                  *)
(***************************************************************************)
\* the array object the caller passes in, and the heap that holds it
CallerRef(data) ==
  [buf |-> "caller", shape |-> data.shape, at |-> [idx \in DOMAIN data.val |-> idx]]
CallerHeap(data) == [b \in {"caller"} |-> data.val]
NoRef == [buf |-> "none", shape |-> <<>>, at |-> EmptyDict]

\* the values seen through a reference
Deref(heap, ref) ==
  [shape |-> ref.shape, val |-> [idx \in DOMAIN ref.at |-> heap[ref.buf][ref.at[idx]]]]

\* np.transpose(data, axis_mapping): a view of the same buffer
TransposeView(ref, axes) ==
  LET n == Len(ref.shape)
      shape == [i \in 1..n |-> ref.shape[axes[i] + 1]]
      src(idx) == [q \in 1..n |-> idx[CHOOSE i \in 1..n : axes[i] + 1 = q]]
  IN [buf |-> ref.buf, shape |-> shape,
      at |-> [idx \in Indices(shape) |-> ref.at[src(idx)]]]

\* a fresh buffer holding the values of an array
NewBuffer(heap, name, data) ==
  [heap |-> (name :> data.val) @@ heap,
   ref |-> [buf |-> name, shape |-> data.shape, at |-> [idx \in DOMAIN data.val |-> idx]]]

\* a data.copy() that hands back the array it was given
CopyAsAlias(heap, ref) == [heap |-> heap, ref |-> ref]

\* scaled_data = data.copy()
Copy(heap, ref) == NewBuffer(heap, "copy", Deref(heap, ref))

\* scaled_data[state_slice] = values, stored in the dtype of the buffer
AssignSlice(heap, scaled, hit, values) ==
  [heap EXCEPT ![scaled.buf] =
     [cell \in DOMAIN @ |->
        IF \E idx \in hit : scaled.at[idx] = cell
        THEN Stored(@[cell], values[CHOOSE idx \in hit : scaled.at[idx] = cell])
        ELSE @[cell]]]

\* the loop of scale_data over the states, on buffers
RECURSIVE MemScaleStates(_, _, _, _, _, _)
MemScaleStates(heap, ref, scaled, axis, state_idx, n_states) ==
  IF state_idx >= n_states THEN heap
  ELSE Bind(Deref(heap, ref), LAMBDA data :
       Bind(AnalyzeDataRange(AnalyzedState(data, axis, state_idx)), LAMBDA r :
       Bind(SliceIndices(data, axis, state_idx), LAMBDA hit :
         MemScaleStates(
           IF r.factor # Fin(1, 0)
           THEN AssignSlice(heap, scaled, hit,
                            [idx \in hit |-> MulPow10(data.val[idx], r.exponent)])
           ELSE heap,
           ref, scaled, axis, state_idx + 1, n_states))))

\* DataScaler.scale_data on buffers: [heap, ref] after the call
MemScaleData(heap, ref, target_axes, auto_scale) ==
  IF ~auto_scale THEN [heap |-> heap, ref |-> ref]
  ELSE IF ~Contains(target_axes, "STATES")
  THEN Bind(Deref(heap, ref), LAMBDA data :
       Bind(AnalyzeDataRange(data), LAMBDA r :
         IF r.factor # Fin(1, 0)
         THEN NewBuffer(heap, "product", ScaleArray(data, r.exponent))
         ELSE [heap |-> heap, ref |-> ref]))
  ELSE Bind(IndexOf(target_axes, "STATES"), LAMBDA axis :
       Bind(Copy(heap, ref), LAMBDA copied :
         [heap |-> MemScaleStates(copied.heap, ref, copied.ref, axis, 0,
                                  ref.shape[axis + 1]),
          ref |-> copied.ref]))

\* Manager.display_data on buffers: the heap after the call, the array
\* handed to the viewer step (NoRef when the call failed before), the error
\* and whether the call is inside the event loop of the spectator viewer
MemDisplayData(sc, heap, ref, axes, state_names, auto_scale) ==
  Bind(Deref(heap, ref), LAMBDA data :
  Bind(DisplayData(sc, data, axes, state_names, auto_scale), LAMBDA res :
  Bind(ParseInputArgs(data, state_names, axes), LAMBDA parsed :
  IF parsed.err # "none" THEN [heap |-> heap, ref |-> NoRef, err |-> res.err, loop |-> FALSE] ELSE
  Bind(ValidateAxisSpecification(parsed.input_axes), LAMBDA validated :
  IF validated.err # "none" THEN [heap |-> heap, ref |-> NoRef, err |-> res.err, loop |-> FALSE] ELSE
  Bind(GetTargetOrder(validated.axes), LAMBDA target :
  IF target.err # "none" THEN [heap |-> heap, ref |-> NoRef, err |-> res.err, loop |-> FALSE] ELSE
  IF validated.axes # target.order
     /\ RearrangeData(data, validated.axes, target.order).err # "none"
  THEN [heap |-> heap, ref |-> NoRef, err |-> res.err, loop |-> FALSE] ELSE
  Bind(IF validated.axes # target.order
       THEN TransposeView(ref, AxisMapping(validated.axes, target.order))
       ELSE ref, LAMBDA rearranged :
  Bind(MemScaleData(heap, rearranged, target.order, auto_scale), LAMBDA scaled :
    [heap |-> scaled.heap, ref |-> scaled.ref, err |-> res.err,
     loop |-> res.result = "event_loop"])))))))

(***************************************************************************)
(* One display_data or scale_data call on an array held in a buffer.       *)
(***************************************************************************)
\* the role lists scale_data is called with directly
MemScaleAxes == UNION {[1..n -> AxisType] : n \in 1..3}
\* the label lists display_data is called with
MemLabelLists == UNION {[1..n -> Labels] : n \in 0..3}

MemCalls ==
  UNION {{[kind |-> "display", data |-> data, axes |-> labels, names |-> names,
            auto |-> auto] :
            data \in {MkData(ShapeOf(labels, MaxStates), StatesPosition(labels), 0),
                      MkData(<<DimSize(1)>>, NoneIndex, 0)},
            names \in {NoNames, Names(StokesNames(1))}, auto \in BOOLEAN} :
         labels \in MemLabelLists}
  \cup {[kind |-> "scale", data |-> c.data, axes |-> c.axes, names |-> NoNames,
         auto |-> c.auto] :
          c \in {ScaleCall(axes, MaxStates, start, auto) :
                   axes \in MemScaleAxes, start \in {0, 1}, auto \in BOOLEAN}}
  \cup {[kind |-> "scale", data |-> IntegerArray, axes |-> axes, names |-> NoNames,
         auto |-> TRUE] :
          axes \in {<<"STATES", "SPATIAL">>, <<"SPECTRAL", "SPATIAL">>}}

InitMemory ==
  /\ scaler = NewScaler
  /\ pipe = NoPipe
  /\ inflight = <<>>
  /\ probe = NoProbe
  /\ \E call \in MemCalls : last = [op |-> "memory", call |-> call]

\* data_manager.display_data(data, *axes, ...)
MemDisplay ==
  /\ last.op = "memory"
  /\ last.call.kind = "display"
  /\ \E r \in {MemDisplayData(scaler, CallerHeap(last.call.data),
                                CallerRef(last.call.data), last.call.axes,
                                last.call.names, last.call.auto)} :
       /\ last' = [op |-> "returned", call |-> last.call, heap |-> r.heap,
                   ref |-> r.ref, err |-> r.err, loop |-> r.loop]
       /\ scaler' = DisplayData(scaler, last.call.data, last.call.axes,
                                last.call.names, last.call.auto).sc
  /\ UNCHANGED <<pipe, inflight, probe>>

\* data_manager.scaler.scale_data(data, target_axes, auto_scale)
MemScale ==
  /\ last.op = "memory"
  /\ last.call.kind = "scale"
  /\ \E r \in {MemScaleData(CallerHeap(last.call.data), CallerRef(last.call.data),
                              last.call.axes, last.call.auto)} :
       /\ last' = [op |-> "returned", call |-> last.call, heap |-> r.heap,
                   ref |-> r.ref, err |-> "none", loop |-> FALSE]
       /\ scaler' = ScaleData(scaler, last.call.data, last.call.axes,
                              last.call.auto).sc
  /\ UNCHANGED <<pipe, inflight, probe>>

\* the call is inside the event loop of the spectator viewer
MemInEventLoop == last.op \in {"returned", "updated"} /\ last.loop

\* the slot update_spectator_data on buffers: the loaded array is a buffer
\* of its own, scale_data copies it, and the viewer's data variable is
\* rebound to that copy
MemSpectatorDataLoaded ==
  /\ MemInEventLoop
  /\ \E new_data \in LoadedArrays :
       \E loaded \in {NewBuffer(last.heap, "loaded", new_data)} :
       \E r \in {MemScaleData(loaded.heap, loaded.ref,
                               <<"STATES", "SPECTRAL", "SPATIAL">>, TRUE)} :
       /\ last' = [last EXCEPT !.op = "updated", !.heap = r.heap, !.ref = r.ref]
       /\ scaler' = UpdateSpectatorData(scaler, new_data).sc
  /\ UNCHANGED <<pipe, inflight, probe>>

\* the event loop ends with SystemExit
MemSpectatorExit ==
  /\ MemInEventLoop
  /\ last' = [last EXCEPT !.op = "exited", !.loop = FALSE, !.err = "SystemExit"]
  /\ scaler' = scaler
  /\ UNCHANGED <<pipe, inflight, probe>>

NextMemory == MemDisplay \/ MemScale \/ MemSpectatorDataLoaded \/ MemSpectatorExit

SpecMemory == InitMemory /\ [][NextMemory]_vars

(***************************************************************************)
(* Properties of the axis pipeline (checked under SpecAxes).               *)
(***************************************************************************)
\* the role a label names, matched case-insensitively; "none" for a label
\* that names no role
RoleOfLabel(label) ==
  CASE label \in {"states", "States"} -> "STATES"
    [] label = "spectral" -> "SPECTRAL"
    [] label = "spatial" -> "SPATIAL"
    [] label = "time" -> "TIME"
    [] OTHER -> "none"

\* the invariants of an AxisSpec (data model): length 1 to 5, at most one
\* STATES, SPECTRAL and TIME, at most two SPATIAL, a single axis is not STATES
IsAxisSpec(roles) ==
  /\ Len(roles) >= 1
  /\ Len(roles) <= 5
  /\ \A i \in 1..Len(roles) : roles[i] \in AxisType
  /\ Count(roles, "STATES") <= 1
  /\ Count(roles, "SPECTRAL") <= 1
  /\ Count(roles, "TIME") <= 1
  /\ Count(roles, "SPATIAL") <= 2
  /\ (Len(roles) = 1 => roles[1] \in {"SPATIAL", "SPECTRAL", "TIME"})

\* the position list of the contract: for each role of target, in order,
\* the first position of input holding it that is not yet consumed
RECURSIVE FirstUnconsumed(_, _, _)
FirstUnconsumed(input, target, used) ==
  IF target = <<>> THEN <<>>
  ELSE LET free == {i \in 1..Len(input) : input[i] = Head(target) /\ (i - 1) \notin used}
           pos == (CHOOSE i \in free : \A j \in free : i <= j) - 1
       IN <<pos>> \o FirstUnconsumed(input, Tail(target), used \cup {pos})

\* a list holding every position 0..n-1 exactly once
IsPermutation(mapping, n) ==
  /\ Len(mapping) = n
  /\ \A p \in 0..(n - 1) : Count(mapping, p) = 1

\* C3: rearrange_data maps every role of target_axes to the first
\* not-yet-consumed matching position of input_axes, so its position list is
\* a permutation of the input positions (also with two SPATIAL axes) and the
\* transpose succeeds.
C3_FirstUnconsumedPermutation ==
  pipe.phase = "rearranged" =>
    /\ pipe.mapping = FirstUnconsumed(pipe.validated.axes, pipe.target.order, {})
    /\ IsPermutation(pipe.mapping, Len(pipe.validated.axes))
    /\ pipe.fwd.err = "none"

\* C4: for every valid AxisSpec, permuting to the target order succeeds,
\* and permuting back restores the values and the shape of the original.
C4_RoundTripRestores ==
  /\ pipe.phase = "rearranged" => pipe.fwd.err = "none"
  /\ pipe.phase = "restored" => pipe.back.err = "none" /\ pipe.back.data = pipe.data

\* C10: validation returns only AxisSpecs (length 1 to 5, role counts
\* within their caps, a single axis not STATES) and rejects every label list
\* that is not one.
C10_ValidatedIsAxisSpec ==
  pipe.phase = "validated" =>
    LET roles == [i \in 1..Len(pipe.labels) |-> RoleOfLabel(pipe.labels[i])] IN
    /\ pipe.validated.err = "none" =>
         IsAxisSpec(pipe.validated.axes) /\ pipe.validated.axes = roles
    /\ ~IsAxisSpec(roles) => pipe.validated.err # "none"
\* the priority of a role: STATES > SPECTRAL > SPATIAL > TIME
Priority(role) ==
  CASE role = "STATES" -> 1 [] role = "SPECTRAL" -> 2 [] role = "SPATIAL" -> 3
    [] role = "TIME" -> 4

\* no role stands before a role of higher priority
InPriorityOrder(order) ==
  \A i, j \in 1..Len(order) : i < j => Priority(order[i]) <= Priority(order[j])

\* get_target_order has run on a valid AxisSpec
OrderedAxisSpec ==
  /\ pipe.phase = "ordered"
  /\ IsAxisSpec(pipe.validated.axes)
  /\ pipe.target.err = "none"

\* C14 as stated: for every valid AxisSpec the roles of target_order appear
\* in the priority order STATES, SPECTRAL, SPATIAL, TIME.
C14_TargetInPriorityOrder ==
  (pipe.phase = "ordered" /\ IsAxisSpec(pipe.validated.axes)) =>
    /\ pipe.target.err = "none"
    /\ InPriorityOrder(pipe.target.order)

\* C14 amended: for rank 3 to 5 the roles of target_order appear in the
\* priority order, except that rank 3 with two SPATIAL axes and TIME gives
\* [SPATIAL, TIME, SPATIAL]; for rank 1 and 2 the caller's order is kept and
\* only SPATIAL moves: no SPATIAL axis stands before another role.
C14_PriorityOrderFromRank3 ==
  (pipe.phase = "ordered" /\ IsAxisSpec(pipe.validated.axes)) =>
    LET input == pipe.validated.axes
        order == pipe.target.order
        twoSpatialAndTime == /\ Len(input) = 3
                             /\ Count(input, "SPATIAL") = 2
                             /\ Contains(input, "TIME")
    IN /\ pipe.target.err = "none"
       /\ (Len(input) >= 3 /\ ~twoSpatialAndTime) => InPriorityOrder(order)
       /\ twoSpatialAndTime => order = <<"SPATIAL", "TIME", "SPATIAL">>
       /\ Len(input) <= 2 =>
            \A i, j \in 1..Len(order) :
              (i < j /\ order[i] = "SPATIAL") => order[j] = "SPATIAL"

\* C14 witness: a rank-4 AxisSpec given in another order was put in the
\* priority order.
C14_Witness ==
  /\ OrderedAxisSpec
  /\ pipe.validated.axes = <<"TIME", "SPATIAL", "STATES", "SPATIAL">>
  /\ pipe.target.order = <<"STATES", "SPATIAL", "SPATIAL", "TIME">>

\* the roles of a list that are not SPATIAL, and those that are, each in
\* the order of the list
IsSpatial(role) == role = "SPATIAL"
NotSpatial(role) == role # "SPATIAL"

\* every occurrence of each role, the roles in priority order
ByPriority(input) ==
  Repeat("STATES", Count(input, "STATES")) \o Repeat("SPECTRAL", Count(input, "SPECTRAL"))
  \o Repeat("SPATIAL", Count(input, "SPATIAL")) \o Repeat("TIME", Count(input, "TIME"))

\* each present role once, in priority order
OnceByPriority(input) ==
  Repeat("STATES", IF Contains(input, "STATES") THEN 1 ELSE 0)
  \o Repeat("SPECTRAL", IF Contains(input, "SPECTRAL") THEN 1 ELSE 0)
  \o Repeat("SPATIAL", IF Contains(input, "SPATIAL") THEN 1 ELSE 0)
  \o Repeat("TIME", IF Contains(input, "TIME") THEN 1 ELSE 0)

\* the rank rules of the contract
RankRule(input) ==
  CASE Len(input) <= 2 -> SelectSeq(input, NotSpatial) \o SelectSeq(input, IsSpatial)
    [] Len(input) = 3 ->
         IF ToSet(input) = {"STATES", "SPECTRAL", "SPATIAL"}
         THEN <<"STATES", "SPECTRAL", "SPATIAL">>
         ELSE OnceByPriority(input)
              \o (IF Count(input, "SPATIAL") = 2 THEN <<"SPATIAL">> ELSE <<>>)
    [] Len(input) = 4 -> ByPriority(input)
    [] Len(input) = 5 -> <<"STATES", "SPECTRAL", "SPATIAL", "SPATIAL", "TIME">>

\* C15: for every valid AxisSpec get_target_order returns the order the
\* rank rules give: caller's order with SPATIAL last (rank <= 2), the fixed
\* or the once-by-priority order with the second SPATIAL at the end (rank 3),
\* STATES first and then all occurrences by priority (rank 4), the fixed
\* order (rank 5).
C15_TargetOrderIsRankRule ==
  (pipe.phase = "ordered" /\ IsAxisSpec(pipe.validated.axes)) =>
    /\ pipe.target.err = "none"
    /\ pipe.target.order = RankRule(pipe.validated.axes)

\* C15 witness: rank 3 with two SPATIAL axes and TIME, the second SPATIAL
\* placed after TIME.
C15_Witness ==
  /\ OrderedAxisSpec
  /\ pipe.validated.axes = <<"SPATIAL", "SPATIAL", "TIME">>
  /\ pipe.target.order = <<"SPATIAL", "TIME", "SPATIAL">>

\* C17: for an axis list whose length is outside 1 to 5, length 0 included,
\* get_target_order fails with UnsupportedRank and returns no order.
C17_RankOutsideOneToFiveUnsupported ==
  (pipe.phase = "ordered" /\ Len(pipe.validated.axes) \notin 1..max_dimensions)
    => pipe.target.err = "UnsupportedRank"

\* C27: for every valid AxisSpec the target order is a rearrangement of the
\* input (same length, every role as often as in the input), and the
\* permutation step that display_data runs on it never fails with
\* TargetAxisNotFound.
C27_TargetIsRearrangement ==
  /\ (pipe.phase \in {"ordered", "rearranged", "kept", "restored"}
       /\ IsAxisSpec(pipe.validated.axes)) =>
       /\ pipe.target.err = "none"
       /\ Len(pipe.target.order) = Len(pipe.validated.axes)
       /\ \A role \in AxisType :
            Count(pipe.target.order, role) = Count(pipe.validated.axes, role)
  /\ pipe.phase \in {"rearranged", "restored"} => pipe.fwd.err # "TargetAxisNotFound"

\* C27 witness: (spatial, time, states, spectral) was permuted to
\* (states, spectral, spatial, time) by the mapping [2, 3, 0, 1].
C27_Witness ==
  /\ pipe.phase = "rearranged"
  /\ pipe.validated.axes = <<"SPATIAL", "TIME", "STATES", "SPECTRAL">>
  /\ pipe.target.order = <<"STATES", "SPECTRAL", "SPATIAL", "TIME">>
  /\ pipe.mapping = <<2, 3, 0, 1>>
  /\ pipe.fwd.err = "none"

(***************************************************************************)
(* Properties of the scaler and the Manager (checked under Spec).          *)
(***************************************************************************)
\* the last call ran scale_data with auto_scale=True to its end: a direct
\* scale() call, or a display_data call that handed its array to a viewer
JustScaled ==
  /\ last.op \in {"scale", "display"}
  /\ last.call.auto
  /\ last.op = "display" => last.res.handed

\* the array and the axis roles that this scale_data call was given
ScaledData == IF last.op = "scale" THEN last.call.data ELSE last.res.rearranged
ScaledAxes == IF last.op = "scale" THEN last.call.axes ELSE last.res.target_axes

\* a in [0.1, 10.0]
InBand(a) == Leq(Fin(1, -1), a) /\ Leq(a, Fin(1, 1))

\* the units scale() treats separately: every state slice, or the whole array
UnitsOf(data, axes) ==
  IF Contains(axes, "STATES")
  THEN LET axis == IndexOf(axes, "STATES")
       IN {StateData(data, axis, i) : i \in 0..(data.shape[axis + 1] - 1)}
  ELSE {data}

\* C1: right after a scale() with auto_scale=True on data with a STATES
\* axis of n states, the retained factors, exponents and labels have exactly
\* the keys 0..n-1, each entry the analyze_range result of this call's slice.
C1_OnlyOwnStateKeys ==
  (JustScaled /\ Contains(ScaledAxes, "STATES")) =>
    LET info == GetScaleInfo(scaler)
        axis == IndexOf(ScaledAxes, "STATES")
        n == ScaledData.shape[axis + 1]
    IN /\ DOMAIN info.factors = 0..(n - 1)
       /\ DOMAIN info.exponents = 0..(n - 1)
       /\ DOMAIN info.labels = 0..(n - 1)
       /\ \A i \in 0..(n - 1) :
            LET r == AnalyzeDataRange(StateData(ScaledData, axis, i))
            IN /\ info.factors[i] = r.factor
               /\ info.exponents[i] = r.exponent
               /\ info.labels[i] = r.label

\* C2: a display_data call with auto_scale=False hands the viewer the
\* reordered input unscaled, and its metadata's scale_info records no key.
C2_NoScaleKeysWhenDisabled ==
  (last.op = "display" /\ ~last.call.auto /\ last.res.handed) =>
    /\ last.res.out = last.res.rearranged
    /\ DOMAIN last.res.metadata.scale_info.factors = {}
    /\ DOMAIN last.res.metadata.scale_info.exponents = {}
    /\ DOMAIN last.res.metadata.scale_info.labels = {}
    /\ ~last.res.metadata.scale_info.is_scaled

\* C6: after scale() with auto_scale=True every scaled unit whose finite
\* values have a non-zero maximum absolute value has that maximum in
\* [0.1, 10.0] in the returned array.
C6_ScaledMaxInBand ==
  JustScaled =>
    \A unit \in UnitsOf(last.res.out, ScaledAxes) :
      (ValidData(unit) # {} /\ MaxAbs(ValidData(unit)).m # 0)
        => InBand(MaxAbs(ValidData(unit)))

\* C8: in every reachable state the three dictionaries have the same keys,
\* every factor is 10 ** exponent with an integer exponent, and a label is
\* empty exactly when its exponent is 0.
C8_ScaleResultInvariant ==
  /\ DOMAIN scaler.current_scale_factors = DOMAIN scaler.current_scale_exponents
  /\ DOMAIN scaler.current_scale_factors = DOMAIN scaler.current_scale_labels
  /\ \A key \in DOMAIN scaler.current_scale_factors :
       /\ scaler.current_scale_exponents[key] \in Int
       /\ scaler.current_scale_factors[key] = Fin(1, scaler.current_scale_exponents[key])
       /\ (scaler.current_scale_labels[key] = "")
            <=> (scaler.current_scale_exponents[key] = 0)

\* C8 witness: after scale() calls the scaler holds a scaled key beside an
\* unscaled one.
C8_Witness ==
  /\ last.op = "scale"
  /\ \E a, b \in DOMAIN scaler.current_scale_factors :
       /\ scaler.current_scale_exponents[a] < 0
       /\ scaler.current_scale_labels[a] # ""
       /\ scaler.current_scale_exponents[b] = 0

\* another input array: data with every m * 10^k of state j's slice
\* replaced by m * 10^(k+e) (by the integer m * 10^(k+|e|) in an array of
\* integers)
WithOtherSlice(data, axis, j, e) ==
  [data EXCEPT !.val = [idx \in DOMAIN @ |->
                          IF idx[axis + 1] = j /\ IsFinite(@[idx])
                          THEN IF @[idx].kind = "int"
                               THEN [Norm(@[idx].m, @[idx].k + Abs(e)) EXCEPT !.kind = "int"]
                               ELSE Norm(@[idx].m, @[idx].k + e)
                          ELSE @[idx]]]

\* C9: the entry recorded for state i depends on slice i alone (an array
\* that differs in another state's slice gets the same entry and the same
\* returned slice i), and the returned slice i is the input slice i times
\* factor i.  (An array of integers is returned with the integer
\* parts of the products: [32, 35] times 0.1 comes back as [3, 3].)
C9_PerStateIndependence ==
  (JustScaled /\ Contains(ScaledAxes, "STATES")) =>
    LET axis == IndexOf(ScaledAxes, "STATES")
        n == ScaledData.shape[axis + 1]
    IN \A i \in 0..(n - 1) :
         /\ \A idx \in SliceIndices(ScaledData, axis, i) :
              last.res.out.val[idx]
                = MulPow10(ScaledData.val[idx], scaler.current_scale_exponents[i])
         /\ \A j \in (0..(n - 1)) \ {i} : \A e \in {-3, 2} :
              LET other == ScaleData(NewScaler, WithOtherSlice(ScaledData, axis, j, e),
                                     ScaledAxes, TRUE)
              IN /\ other.sc.current_scale_factors[i] = scaler.current_scale_factors[i]
                 /\ other.sc.current_scale_exponents[i] = scaler.current_scale_exponents[i]
                 /\ other.sc.current_scale_labels[i] = scaler.current_scale_labels[i]
                 /\ other.sc.current_scale_exponents[j]
                      # scaler.current_scale_exponents[j]
                 /\ \A idx \in SliceIndices(ScaledData, axis, i) :
                      other.out.val[idx] = last.res.out.val[idx]

\* C22: right after a scale() with auto_scale=True on data without a STATES
\* axis, factors, exponents and labels each have exactly the key "global",
\* whatever the scaler held before; the call returns the input array
\* itself when the factor is 1.0, and otherwise a new array whose values are
\* the input's multiplied by the factor.
C22_GlobalKeyAloneAndReturn ==
  (JustScaled /\ ~Contains(ScaledAxes, "STATES")) =>
    /\ DOMAIN scaler.current_scale_factors = {GlobalKey}
    /\ DOMAIN scaler.current_scale_exponents = {GlobalKey}
    /\ DOMAIN scaler.current_scale_labels = {GlobalKey}
    /\ scaler.current_scale_factors[GlobalKey] = Fin(1, 0) =>
         /\ last.res.out = ScaledData
         /\ last.op = "scale" => last.same
    /\ scaler.current_scale_factors[GlobalKey] # Fin(1, 0) =>
         /\ ~last.same
         /\ last.res.out.shape = ScaledData.shape
         /\ \A idx \in DOMAIN ScaledData.val :
              last.res.out.val[idx]
                = MulPow10(ScaledData.val[idx], scaler.current_scale_exponents[GlobalKey])

\* C22 witness: a direct scale() without a STATES axis, made after a call
\* with a STATES axis (whose axis index the scaler still holds), left the
\* global key alone and returned a rescaled array.
C22_Witness ==
  /\ last.op = "scale"
  /\ last.call.auto
  /\ ~Contains(last.call.axes, "STATES")
  /\ scaler.states_axis_index # NoneIndex
  /\ DOMAIN scaler.current_scale_factors = {GlobalKey}
  /\ scaler.current_scale_exponents[GlobalKey] # 0
  /\ last.res.out # last.call.data

\* C24: after a scale() with auto_scale=True, whatever preceded it,
\* get_scale_info() reports has_states_axis true exactly when this call's
\* axes contain STATES, and states_axis_index the position of STATES in
\* this call's axes, None when there is none.
C24_StatesAxisOfThisCall ==
  JustScaled =>
    LET info == GetScaleInfo(scaler) IN
    /\ info.has_states_axis <=> Contains(ScaledAxes, "STATES")
    /\ info.states_axis_index
         = IF Contains(ScaledAxes, "STATES") THEN IndexOf(ScaledAxes, "STATES")
           ELSE NoneIndex
(***************************************************************************)
(* Properties of analyze_data_range (checked under SpecRange).             *)
(***************************************************************************)
\* C7: when analyze_range gives an array a factor other than 1, it gives
\* the array multiplied by that factor the identity (1.0, 0, "").
C7_OnePassIdempotent ==
  (probe.phase = "rescaled" /\ probe.first.factor # Fin(1, 0)) =>
    /\ probe.second.factor = Fin(1, 0)
    /\ probe.second.exponent = 0
    /\ probe.second.label = ""

\* C7 witness: an array that was scaled to a maximum above the band (0.0158
\* becomes 15.8) and analyzed again.
C7_Witness ==
  /\ probe.phase = "rescaled"
  /\ probe.first.exponent = 3
  /\ Decimal(MaxAbs(ValidData(probe.scaled))) = Fin(158, -1)

\* a finite array, the largest absolute value of a set of its values, and
\* the values of the array at one index of its first axis
AllFinite(data) == \A idx \in DOMAIN data.val : IsFinite(data.val[idx])
LargestAbs(values) ==
  CHOOSE x \in {AbsVal(v) : v \in values} : \A v \in values : Leq(AbsVal(v), x)
RowIndices(data, i) == {idx \in DOMAIN data.val : idx[1] = i}
RowValues(data, i) == {data.val[idx] : idx \in RowIndices(data, i)}
LegibleArray(data) ==
  /\ DOMAIN data.val # {}
  /\ AllFinite(data)
  /\ InBand(LargestAbs({data.val[idx] : idx \in DOMAIN data.val}))

\* C20 as stated: for a finite non-empty array whose largest absolute value
\* lies in [0.1, 10.0], analyze_data_range returns (1.0, 0, "") and
\* scale_data returns the values unchanged, whatever the axes.
C20_InBandIdentityAndUnchanged ==
  LegibleArray(probe.data) =>
    /\ probe.phase \in {"analyzed", "rescaled"} => probe.first = IdentityScale
    /\ probe.phase = "scaled" => probe.out = probe.data

\* C20 amended: analyze_data_range returns (1.0, 0, "") for such an array;
\* scale_data without a STATES axis records the identity under the global
\* key and returns the values unchanged; with a STATES axis the band is
\* taken per state: a state whose own largest absolute value lies in
\* [0.1, 10.0] gets the identity under its key and keeps its values, the
\* whole array's maximum deciding nothing.
C20_InBandIdentityPerKey ==
  LegibleArray(probe.data) =>
    /\ probe.phase \in {"analyzed", "rescaled"} => probe.first = IdentityScale
    /\ (probe.phase = "scaled" /\ ~Contains(probe.axes, "STATES")) =>
         /\ probe.out = probe.data
         /\ scaler.current_scale_factors[GlobalKey] = Fin(1, 0)
         /\ scaler.current_scale_exponents[GlobalKey] = 0
         /\ scaler.current_scale_labels[GlobalKey] = ""
    /\ (probe.phase = "scaled" /\ probe.axes[1] = "STATES") =>
         \A i \in 0..(probe.data.shape[1] - 1) :
           InBand(LargestAbs(RowValues(probe.data, i))) =>
             /\ \A idx \in RowIndices(probe.data, i) :
                  probe.out.val[idx] = probe.data.val[idx]
             /\ scaler.current_scale_factors[i] = Fin(1, 0)
             /\ scaler.current_scale_exponents[i] = 0
             /\ scaler.current_scale_labels[i] = ""

\* a set of values with no finite value other than zero (the empty set
\* included)
NothingToScale(values) == \A v \in values : ~IsFinite(v) \/ v.m = 0
AllValues(data) == {data.val[idx] : idx \in DOMAIN data.val}
IdentityUnder(sc, key) ==
  /\ key \in DOMAIN sc.current_scale_factors
  /\ sc.current_scale_factors[key] = Fin(1, 0)
  /\ sc.current_scale_exponents[key] = 0
  /\ sc.current_scale_labels[key] = ""

\* C21: for an empty array, an array without a finite value and an array
\* whose finite values are all zero, analyze_data_range returns
\* (1.0, 0, ""); scale_data records that identity under the key of the unit
\* (the global key, or the state whose sub-array is such an array) and
\* returns the unit's values unchanged.
C21_EdgeCasesAreIdentity ==
  /\ (probe.phase \in {"analyzed", "rescaled"} /\ NothingToScale(AllValues(probe.data)))
       => probe.first = IdentityScale
  /\ (probe.phase = "scaled" /\ ~Contains(probe.axes, "STATES")
        /\ NothingToScale(AllValues(probe.data))) =>
       /\ probe.out = probe.data
       /\ IdentityUnder(scaler, GlobalKey)
  /\ (probe.phase = "scaled" /\ Contains(probe.axes, "STATES")) =>
       \A i \in 0..(probe.data.shape[1] - 1) :
         NothingToScale(RowValues(probe.data, i)) =>
           /\ IdentityUnder(scaler, i)
           /\ \A idx \in RowIndices(probe.data, i) :
                probe.out.val[idx] = probe.data.val[idx]

\* C21 witness: scale_data on the states 3.2e6, 0 and NaN rescaled state 0
\* and recorded the identity for the zero state and the NaN state.
C21_Witness ==
  /\ probe.phase = "scaled"
  /\ probe.axes = <<"STATES", "SPATIAL">>
  /\ probe.data = Column(Fin(32, 5), Fin(0, 0), NaN)
  /\ scaler.current_scale_exponents[0] = -6
  /\ IdentityUnder(scaler, 1)
  /\ IdentityUnder(scaler, 2)
  /\ probe.out.val[<<1, 0>>] = Fin(0, 0)
  /\ probe.out.val[<<2, 0>>] = NaN

\* C20 witness: a finite array with largest absolute value exactly 0.1
\* (the lower end of the band) went through scale_data without a STATES
\* axis and came back unchanged.
C20_Witness ==
  /\ probe.phase = "scaled"
  /\ LegibleArray(probe.data)
  /\ probe.data.val[<<0, 0>>] = Fin(1, -1)
  /\ probe.axes = <<"SPECTRAL", "SPATIAL">>
  /\ probe.out = probe.data
(***************************************************************************)
(* Properties of overlapping calls (checked under SpecOverlap).            *)
(***************************************************************************)
\* C5: the scaler is shared without a lock.  A call reads through
\* get_scale_info() a scale_info other than the one its own scaling leaves
\* only when the other call wrote the scaler between this call's scaling
\* and its read; C5_Witness is such an interleaving.
C5_ForeignInfoOnlyByOverlap ==
  \A c \in {1, 2} :
    (inflight[c].pc \in {"log", "finish", "done", "viewing", "exited"}
       /\ inflight[c].info # inflight[c].solo)
      => inflight[c].overlapped

\* C5 witness: a call handed its viewer a scale_info that holds the other
\* call's 'global' entry although its own data has a states axis.
C5_Witness ==
  \E c \in {1, 2} :
    /\ inflight[c].pc \in {"done", "viewing", "exited"}
    /\ inflight[c].handed
    /\ Contains(inflight[c].target, "STATES")
    /\ inflight[c].info # inflight[c].solo
    /\ GlobalKey \in DOMAIN inflight[c].info.factors
    /\ GlobalKey \notin DOMAIN inflight[c].solo.factors
    /\ ~inflight[c].info.has_states_axis
(***************************************************************************)
(* Properties of one display_data call (checked under SpecCalls).          *)
(***************************************************************************)
\* the call that display_data was just run on, and what it left
Called == last.op = "display"
CallRank == Len(last.call.data.shape)

\* C11 as stated: a call with max_dimensions + 1 = 6 labels fails with
\* InvalidAxisCount, whatever the array's rank and the state_names.
C11_SixLabelsInvalidAxisCount ==
  (Called /\ Len(last.call.axes) = max_dimensions + 1)
    => last.res.err = "InvalidAxisCount"

\* C11 amended: a call with 6 labels always fails, hands nothing to a viewer
\* and leaves the scaler untouched; the error is AxisCountMismatch when the
\* array's rank is not 6, and for a rank-6 array it is InvalidAxisCount
\* unless a state-name check (TooManyStates, StateNamesCountMismatch)
\* fails first, which takes state_names.
C11_SixLabelsFailEarly ==
  (Called /\ Len(last.call.axes) = max_dimensions + 1) =>
    /\ last.res.err # "none"
    /\ ~last.res.handed
    /\ scaler = NewScaler
    /\ CallRank # max_dimensions + 1 => last.res.err = "AxisCountMismatch"
    /\ CallRank = max_dimensions + 1 =>
         /\ last.res.err \in {"InvalidAxisCount", "TooManyStates", "StateNamesCountMismatch"}
         /\ ~last.call.names.given => last.res.err = "InvalidAxisCount"

\* C11 witness: 6 labels on a rank-6 array raised InvalidAxisCount, and
\* with state_names of the wrong length the same labels raise the
\* state-name error instead.
C11_Witness ==
  /\ Called
  /\ Len(last.call.axes) = max_dimensions + 1
  /\ CallRank = max_dimensions + 1
  /\ last.call.axes[1] = "states"
  /\ \/ ~last.call.names.given /\ last.res.err = "InvalidAxisCount"
     \/ last.call.names.given /\ last.res.err = "StateNamesCountMismatch"

\* the checks a call violates, in pipeline order: the label count against
\* the array's rank; the state names against the cap and the size of the
\* axis labelled as states (in any letter case); the roles of the labels
CountViolated == Len(last.call.axes) # CallRank
NamesViolated ==
  /\ last.call.names.given
  /\ StatesPosition(last.call.axes) # NoneIndex
  /\ \/ Len(last.call.names.names) > max_states
     \/ /\ StatesPosition(last.call.axes) < CallRank
        /\ Len(last.call.names.names)
             # last.call.data.shape[StatesPosition(last.call.axes) + 1]
RolesViolated ==
  ~IsAxisSpec([i \in 1..Len(last.call.axes) |-> RoleOfLabel(last.call.axes[i])])
NameErrors == {"TooManyStates", "StateNamesCountMismatch"}
RoleErrors == {"InvalidAxisCount", "UnknownAxisLabel", "DuplicateAxisRole", "InvalidSingleAxis"}

\* C12: a call that violates several checks raises the error of the
\* earliest one: AxisCountMismatch before the state-name errors and the role
\* errors, a state-name error before the role errors.
C12_EarliestErrorFirst ==
  Called =>
    /\ (CountViolated /\ (NamesViolated \/ RolesViolated))
         => last.res.err = "AxisCountMismatch"
    /\ (~CountViolated /\ NamesViolated /\ RolesViolated)
         => last.res.err \in NameErrors

\* C13: a successful call whose validated axes contain STATES (the label in
\* any letter case) emits a non-empty states_info whose count is the size of
\* the STATES axis, with count names, "1".."n" when the caller gave none.
C13_StatesInfoForStatesAxis ==
  (Called /\ last.res.handed /\ Contains(last.res.target_axes, "STATES")) =>
    LET info == last.res.metadata.states_info
        n_states == last.call.data.shape[StatesPosition(last.call.axes) + 1]
    IN /\ info.present
       /\ info.count = n_states
       /\ Len(info.names) = info.count
       /\ ~last.call.names.given => info.names = DefaultNames(n_states)

\* the roles the caller's labels stand for, and the size of the input axis
\* labelled with a role
CallRoles == [i \in 1..Len(last.call.axes) |-> RoleOfLabel(last.call.axes[i])]
SizeLabelled(role) ==
  last.call.data.shape[CHOOSE i \in 1..Len(CallRoles) : CallRoles[i] = role]

\* a 3-D array labelled with STATES, SPECTRAL and SPATIAL in some order,
\* with state names (if any) that fit the STATES axis
StokesCubeCall ==
  /\ Called
  /\ CallRank = 3
  /\ Len(last.call.axes) = 3
  /\ ToSet(CallRoles) = {"STATES", "SPECTRAL", "SPATIAL"}
  /\ ~NamesViolated

\* C16: a 3-D array labelled with STATES, SPECTRAL and SPATIAL in any of the
\* six orders is handed to the spectator viewer (the call enters the
\* viewer's event loop) with shape (n_states, n_spectral, n_spatial), each
\* output axis with the size of the input axis of the same role, and no
\* NotImplementedViewerConfiguration.
C16_StokesCubeToSpectator ==
  StokesCubeCall =>
    /\ last.res.err = "none"
    /\ last.res.handed
    /\ last.res.viewer = "spectator"
    /\ last.res.result = "event_loop"
    /\ last.res.out.shape = <<SizeLabelled("STATES"), SizeLabelled("SPECTRAL"),
                              SizeLabelled("SPATIAL")>>

\* C16 witness: scenario A, labels (states, spatial, spectral): the two
\* trailing axes of different sizes are exchanged.
C16_Witness ==
  /\ StokesCubeCall
  /\ last.call.axes = <<"states", "spatial", "spectral">>
  /\ last.call.data.shape[2] # last.call.data.shape[3]
  /\ last.res.viewer = "spectator"
  /\ last.res.out.shape = <<last.call.data.shape[1], last.call.data.shape[3],
                            last.call.data.shape[2]>>

\* the errors of the steps before viewer selection, and the calls that got
\* past those steps
EarlierErrors ==
  {"AxisCountMismatch", "TargetAxisNotFound", "TransposeAxesMismatch",
   "TransposeRepeatedAxis"} \cup NameErrors \cup RoleErrors
ReachedSelection == Called /\ last.res.err \notin EarlierErrors

\* the viewer the contract names for a rank
ViewerOfRank(rank) ==
  CASE rank = 1 -> "plot_1d" [] rank = 2 -> "plot_2d" [] rank = 3 -> "spectator"
    [] rank = 4 -> "plot_4d" [] rank = 5 -> "plot_5d"

\* the final role positions the spectator viewer takes
SpectatorLayout(roles) == roles = <<"STATES", "SPECTRAL", "SPATIAL">>

\* C18: for a call that reaches viewer selection the outcome follows from
\* the rank of the final array alone, and for rank 3 from the final role
\* positions: rank 1, 2, 4, 5 give plot_1d, plot_2d, plot_4d, plot_5d and a
\* not-yet-implemented record without an error; rank 3 gives spectator, and
\* NotImplementedViewerConfiguration exactly when the final roles are not
\* STATES, SPECTRAL, SPATIAL at 0, 1, 2; any other rank gives UnsupportedRank.
C18_ViewerByRankAndLayout ==
  ReachedSelection =>
    /\ CallRank \in {1, 2, 4, 5} =>
         /\ last.res.err = "none"
         /\ last.res.viewer = ViewerOfRank(CallRank)
         /\ last.res.result = "placeholder"
    /\ CallRank = 3 =>
         /\ last.res.err \in {"none", "NotImplementedViewerConfiguration"}
         /\ last.res.err = "NotImplementedViewerConfiguration"
              <=> ~SpectatorLayout(RankRule(CallRoles))
         /\ last.res.err = "none" =>
              /\ last.res.viewer = "spectator"
              /\ last.res.result = "event_loop"
    /\ CallRank \notin 1..5 => last.res.err = "UnsupportedRank"

\* C18 witness: a rank-3 array whose final roles are STATES, SPATIAL,
\* SPATIAL was refused by the spectator branch.
C18_Witness ==
  /\ ReachedSelection
  /\ CallRank = 3
  /\ CallRoles = <<"STATES", "SPATIAL", "SPATIAL">>
  /\ last.res.err = "NotImplementedViewerConfiguration"

\* C19: the metadata of a successful call describes the final array:
\* a non-empty states_info has axis_index equal to the metadata's
\* states_axis, the position of STATES in the target order.
C19_StatesInfoIndexIsFinal ==
  (Called /\ last.res.handed /\ last.res.metadata.states_info.present) =>
    last.res.metadata.states_info.axis_index = last.res.metadata.states_axis

(***************************************************************************)
(* Properties of the buffers (checked under SpecMemory).                   *)
(***************************************************************************)
Returned == last.op = "returned"

\* what the call returns or hands on, and the array it rescales, computed
\* on values alone
ValueResult ==
  IF last.call.kind = "scale"
  THEN ScaleData(NewScaler, last.call.data, last.call.axes, last.call.auto).out
  ELSE DisplayData(NewScaler, last.call.data, last.call.axes, last.call.names,
                   last.call.auto).out
ValueBeforeScaling ==
  IF last.call.kind = "scale" THEN last.call.data
  ELSE DisplayData(NewScaler, last.call.data, last.call.axes, last.call.names,
                   last.call.auto).rearranged

\* C23: after any display_data or scale_data call, failed or not, with or
\* without a STATES axis, the caller's buffer holds the values it held
\* before, also inside and after the event loop of the spectator viewer;
\* an array of rescaled values lives in another buffer, and that array
\* holds the values the call computes.
C23_CallerArrayUntouched ==
  /\ last.op \in {"returned", "updated", "exited"} =>
       last.heap["caller"] = last.call.data.val
  /\ (Returned /\ last.err = "none" /\ last.ref # NoRef) =>
       /\ Deref(last.heap, last.ref) = ValueResult
       /\ ValueResult # ValueBeforeScaling => last.ref.buf # "caller"

\* C23 witness: display_data on (spatial, states) data transposed the
\* caller's array as a view and rescaled the states in a copy.
C23_Witness ==
  /\ Returned
  /\ last.call.kind = "display"
  /\ last.call.axes = <<"spatial", "states">>
  /\ last.err = "none"
  /\ last.ref.buf = "copy"
  /\ \E idx \in DOMAIN last.ref.at :
       last.heap["copy"][idx] # last.call.data.val[<<idx[2], idx[1]>>]

(***************************************************************************)
(* Frame properties of the Manager (checked under Spec).                   *)
(***************************************************************************)
\* the step is a call that ran scale_data with auto_scale=True, or a reset
ScalingOrResetStep ==
  \/ last'.op = "reset"
  \/ last'.op = "scale" /\ last'.call.auto
  \/ last'.op = "update"
  \/ last'.op = "display" /\ last'.call.auto /\ last'.res.err \notin EarlierErrors

\* C25: only scale() with auto_scale=True and reset() change the five
\* retained fields of the scaler.  get_scale_info(), a change made to the
\* record it returned, scale() with auto_scale=False (which returns its
\* input array itself) and the validation, target order, permutation and
\* viewer selection of display_data leave them as they were.
C25_OnlyScaleAndResetWrite ==
  [][/\ scaler' # scaler => ScalingOrResetStep
     /\ (last'.op = "scale" /\ ~last'.call.auto) =>
          /\ last'.same
          /\ last'.res.out = last'.call.data]_vars

\* C25 witness: the caller edited the record get_current_scale_info()
\* returned, and the scaler still holds the scales of the last scaling.
C25_Witness ==
  /\ last.op = "mutated"
  /\ DOMAIN scaler.current_scale_factors # {}
  /\ \A key \in DOMAIN scaler.current_scale_factors :
       /\ scaler.current_scale_factors[key] = Fin(1, scaler.current_scale_exponents[key])
       /\ scaler.current_scale_labels[key] # "edited"
  /\ \E key \in DOMAIN scaler.current_scale_factors :
       last.res.metadata.scale_info.factors[key] # scaler.current_scale_factors[key]

\* C26: a display_data call that fails, at whichever step, leaves the five
\* retained fields of the scaler as they were before the call.
C26_FailedCallLeavesScaler ==
  [][(last'.op = "display" /\ last'.res.err # "none") => scaler' = scaler]_vars

\* the viewer's update sequence has just run: the slot's
\* reset_data_scaling() and then scale_data on (STATES, SPECTRAL, SPATIAL)
\* data with auto_scale=True
ViewerUpdate ==
  /\ last.op = "update"
  /\ last.call.auto
  /\ last.call.axes = <<"STATES", "SPECTRAL", "SPATIAL">>

\* C28: after reset(), from any state, get_scale_info() reports empty
\* factors, exponents and labels, is_scaled false, has_states_axis false and
\* states_axis_index None; after the viewer's update sequence on data with
\* n states the keys are exactly 0..n-1, each entry the analyze_range result
\* of the new data's state.
C28_ResetThenFreshKeys ==
  /\ last.op = "reset" =>
       LET info == GetScaleInfo(scaler) IN
       /\ DOMAIN info.factors = {}
       /\ DOMAIN info.exponents = {}
       /\ DOMAIN info.labels = {}
       /\ ~info.is_scaled
       /\ ~info.has_states_axis
       /\ info.states_axis_index = NoneIndex
  /\ ViewerUpdate =>
       LET info == GetScaleInfo(scaler)
           n == last.call.data.shape[1]
       IN /\ DOMAIN info.factors = 0..(n - 1)
          /\ DOMAIN info.exponents = 0..(n - 1)
          /\ DOMAIN info.labels = 0..(n - 1)
          /\ \A i \in 0..(n - 1) :
               LET r == AnalyzeDataRange(StateData(last.call.data, 0, i))
               IN /\ info.factors[i] = r.factor
                  /\ info.exponents[i] = r.exponent
                  /\ info.labels[i] = r.label

\* C28 witness: the viewer's update sequence on data with one state of
\* magnitude 0.0158 left the single key 0 with the factor 1e3.
C28_Witness ==
  /\ ViewerUpdate
  /\ last.call.data.shape[1] = 1
  /\ DOMAIN scaler.current_scale_factors = {0}
  /\ scaler.current_scale_exponents[0] = 3

(***************************************************************************)
(* The cap on the number of states (checked under SpecCalls).              *)
(***************************************************************************)
\* C29: no display_data call succeeds on an array whose STATES axis has
\* more than max_states = 8 elements, state_names given or not.
C29_NoDisplayBeyondStateCap ==
  (Called /\ StatesPosition(last.call.axes) # NoneIndex
    /\ StatesPosition(last.call.axes) < CallRank
    /\ last.call.data.shape[StatesPosition(last.call.axes) + 1] > max_states)
    => (last.res.err # "none" /\ ~last.res.handed)
====
